---- MODULE Spec2Model ----
(***************************************************************************)
(* Verification model of the kaya AI-analysis core.                        *)
(*                                                                         *)
(* Part I   BoardRecognitionWorker (the promise facade over the            *)
(*          recognition web worker) and BoardRecognitionDialog (its only   *)
(*          caller): request ids, the pending table, the debounce timer    *)
(*          and the reclassify sequence number.                            *)
(* Part II  AIEngineProvider: the process-wide engine handle and the       *)
(*          async initializeEngine / disposeEngine callbacks.              *)
(* Part III OnnxEngine.initialize: back-end negotiation and fallback.      *)
(*                                                                         *)
(* Each part has its own specification; a part's actions leave the other   *)
(* parts' variables unchanged.                                             *)
(***************************************************************************)
EXTENDS Integers, Sequences, FiniteSets, TLC

VARIABLES
  \* ---- BoardRecognitionWorker (facade) -------------------------------
  nextId,            \* private nextId = 1
  pending,           \* private pending = new Map<number, Pending>(): its key set
  outcome,           \* per request id: the state of the promise returned to the caller
  settles,           \* per request id: how many times resolve/reject was called on it
  inbox,             \* messages posted to the worker, not yet handled (FIFO)
  replies,           \* messages posted by the worker, not yet delivered (FIFO)
  workerTerminated,  \* worker.terminate() was called
  disposeRun,        \* history: number of consecutive dispose() calls just made
  \* ---- BoardRecognitionDialog ----------------------------------------
  mounted,           \* the component is mounted (workerRef.current is non-null)
  rawImage,          \* rawImage state is non-null
  boardSize,         \* boardSize state, 0 = null
  corners,           \* corners state, 0 = null
  result,            \* result state: <<>> = null, <<r>> otherwise
  analyzing,         \* analyzing state
  loadError,         \* loadError state is non-null
  hints,             \* hints state (set of hinted intersections)
  gridCorners,       \* gridCorners state / gridCornersRef, 0 = null
  timers,            \* the live setTimeout timers created by scheduleReclassify
  debounceRef,       \* debounceRef.current: id of the last timer created, 0 = null
  reclassifySeqRef,  \* reclassifySeqRef.current
  handler,           \* per request id: the then/catch/finally closure the dialog attached
  effectReq,         \* id of the request issued by the live recognition effect, 0 = none
  intentSeq,         \* history: number of requests issued or scheduled so far
  replyView,         \* history, per request id: how its reply was treated by the dialog
  lastDrag           \* history: the last corner-drag completion, <<>> = none yet

VARIABLES
  \* ---- AIEngineProvider (AIEngineContext.tsx) -------------------------
  globalEngineInstance,        \* let globalEngineInstance: 0 = null, else an engine id
  globalEnginePromise,         \* let globalEnginePromise: 0 = null, else the id of the engine it creates
  globalEngineConfig,          \* let globalEngineConfig: 0 = null, else a configuration
  engine,                      \* useState engine: 0 = null, else an engine id
  isInitializing,              \* useState isInitializing
  error,                       \* useState error is non-null
  initializationTriggeredRef,  \* initializationTriggeredRef.current
  isModelLoaded,               \* isModelLoaded && customAIModel (from useGameTree)
  currentConfig,               \* (model name, back-end, batch size, board size) now in effect
  engines,                     \* per engine id: none / creating / live / disposing / disposed / failed
  engineConfig,                \* history, per engine id: the configuration it was built for
  fellBack,                    \* engine ids whose getRuntimeInfo() reports didFallback
  nextEngine,                  \* next unused engine id
  calls,                       \* per call id: the suspended initializeEngine / disposeEngine invocation
  nextCall,                    \* next unused call id
  jobs,                        \* the microtask queue: calls whose awaited promise has settled
  disposeOps,                  \* engine.dispose() calls in progress (FIFO)
  lastDeps                     \* the effect dependencies seen by the last effects flush

VARIABLES
  \* ---- OnnxEngine (initialize / getRuntimeInfo) -----------------------
  cfgProviders,          \* config.executionProviders (Unset = undefined)
  cfgEnableGraphCapture, \* config.enableGraphCapture
  cfgHasModel,           \* config.modelBuffer or config.modelUrl is given
  session,               \* this.session is non-null
  initialized,           \* this.initialized
  usedProviders,         \* this.usedProviders
  requestedProviders,    \* this.requestedProviders
  didFallback,           \* this.didFallback
  graphCaptureEnabled,   \* this.graphCaptureEnabled
  useGpuInputs,          \* this.useGpuInputs
  gpuBuffers,            \* the pre-allocated GPU buffers and tensors exist
  initPc,                \* where the running initialize() is suspended; "idle" = none running
  effProviders,          \* initialize's local effectiveProviders
  usedProviderNames,     \* initialize's local usedProviderNames
  initTried,             \* history: the running / last initialize() reached the fallback retry
  lastInit,              \* history: how the last initialize() ended: none / ok / rejected
  lastAnalyze,           \* history: the last analysis request and what became of it
  cfgEnableCache,        \* config.enableCache
  inputDataType,         \* this.inputDataType
  maxInferenceBatch,     \* this.maxInferenceBatch
  cache,                 \* this.cache: the entries in insertion order
  inserted,              \* history: every key that entered the cache, in order
  lastRun,               \* history: the last evaluation or batch and its session runs
  \* ---- Part V: decoding and the ko filter ----
  koCase,                \* a decoded network output, its position and what the engine returns for it
  \* ---- Part VI: one _runMCTS call ----
  mcts,                  \* its arguments, the loop counter v, the tree and the result
  \* ---- Part VII: the model rewriter ----
  rw,                    \* the bytes given to the rewriter, its runs and what the provider keeps
  \* ---- Part VIII: functions of the recognition and report packages ----
  libCall,               \* the last call of one of them: its arguments and what it returned
  \* ---- Part IX: analyzeBatch calls that overlap on one engine ----
  overlap                \* each caller's call, and the last upload to the device input buffers

facadeVars == <<nextId, pending, outcome, settles, inbox, replies, workerTerminated, disposeRun>>
dialogVars == <<mounted, rawImage, boardSize, corners, result, analyzing, loadError, hints,
                gridCorners, timers, debounceRef, reclassifySeqRef, handler, effectReq,
                intentSeq, replyView, lastDrag>>
recVars == <<facadeVars, dialogVars>>
ctxVars == <<globalEngineInstance, globalEnginePromise, globalEngineConfig, engine, isInitializing,
             error, initializationTriggeredRef, isModelLoaded, currentConfig, engines,
             engineConfig, fellBack, nextEngine, calls, nextCall, jobs, disposeOps, lastDeps>>
onnxVars == <<cfgProviders, cfgEnableGraphCapture, cfgHasModel, session, initialized,
              usedProviders, requestedProviders, didFallback, graphCaptureEnabled, useGpuInputs,
              gpuBuffers, initPc, effProviders, usedProviderNames, initTried, lastInit,
              lastAnalyze, cfgEnableCache, inputDataType, maxInferenceBatch, cache,
              inserted, lastRun>>
analysisVars == <<cfgEnableCache, cache, inserted, lastRun>>
fnVars == <<koCase, mcts, rw, libCall, overlap>>
vars == <<recVars, ctxVars, onnxVars, fnVars>>
nonRecVars == <<ctxVars, onnxVars, fnVars>>
nonCtxVars == <<recVars, onnxVars, fnVars>>
nonOnnxVars == <<recVars, ctxVars, fnVars>>
nonFnVars == <<recVars, ctxVars, onnxVars>>

\* ------------------------------------------------------------------------
\* Bounds and program constants
\* ------------------------------------------------------------------------
MaxRequests == 3        \* requests the facade is asked to post in one run
MaxDragCorners == 1     \* distinct corner quadrilaterals a user drag can end at
MaxHintPoints == 1      \* intersections the user can hint
MaxDisposeRun == 2      \* consecutive dispose() calls explored

RECLASSIFY_DEBOUNCE_MS == 350
TickMs == RECLASSIFY_DEBOUNCE_MS \div 2   \* granularity of observed time

Ids == 1..MaxRequests
BoardSizes == {9, 13}                 \* of SIZES = [9, 13, 19]
DetectedCorners == 1                  \* the corners recognizeBoard reports
DragCorners == 2..(1 + MaxDragCorners)
HintPoints == 1..MaxHintPoints
UserGrid == 1                         \* a grid quadrilateral set by the user

Settled == {"resolved", "rejected_error", "rejected_cancelled", "rejected_disposed"}
NoHandler == [kind |-> "none", seq |-> 0, cancelled |-> FALSE, intent |-> 0]
NoView == [handled |-> FALSE, staleIntent |-> FALSE, staleSeq |-> FALSE, applied |-> FALSE]

\* ------------------------------------------------------------------------
\* Part I.a  BoardRecognitionWorker
\* ------------------------------------------------------------------------

\* The body shared by recognizeBoard / reclassifyWithCorners /
\* reclassifyWithHints: take an id, register the promise, post the message.
\* postMessage on a terminated worker is silently dropped.
postRequest(type, opts) ==
  /\ nextId <= MaxRequests
  /\ nextId' = nextId + 1
  /\ pending' = pending \cup {nextId}
  /\ outcome' = [outcome EXCEPT ![nextId] = "pending"]
  /\ inbox' = IF workerTerminated
                THEN inbox
                ELSE Append(inbox, [id |-> nextId, type |-> type, boardSize |-> opts.boardSize,
                                    corners |-> opts.corners, grid |-> opts.grid,
                                    hints |-> opts.hints])
  /\ disposeRun' = 0
  /\ UNCHANGED <<settles, replies, workerTerminated>>

recognizeBoard(size) ==
  postRequest("recognizeBoard", [boardSize |-> size, corners |-> 0, grid |-> 0, hints |-> {}])

reclassifyWithCorners(c, size, gc) ==
  postRequest("reclassifyWithCorners", [boardSize |-> size, corners |-> c, grid |-> gc, hints |-> {}])

reclassifyWithHints(c, h, size, gc) ==
  postRequest("reclassifyWithHints", [boardSize |-> size, corners |-> c, grid |-> gc, hints |-> h])

\* The worker's self.onmessage: run the pipeline named by msg.type and post
\* {id, result}, or post {id, error: message} when the pipeline throws.
\* err is "none" (no throw), or the thrown error's message, which may be "".
workerReply(msg, err) ==
  IF err = "none"
    THEN [id |-> msg.id, hasResult |-> TRUE, error |-> "none",
          result |-> [by |-> msg.id, boardSize |-> msg.boardSize,
                      corners |-> IF msg.type = "recognizeBoard" THEN DetectedCorners ELSE msg.corners]]
    ELSE [id |-> msg.id, hasResult |-> FALSE, error |-> err,
          result |-> [by |-> msg.id, boardSize |-> 0, corners |-> 0]]

\* How this.worker.onmessage settles the promise of a pending id:
\*   if (error) reject  else if (result) resolve  (else: neither)
\* `error` is truthy when it is present and not the empty string.
settleOnReply(reply) ==
  IF reply.error # "none" /\ reply.error # "" THEN "rejected_error"
  ELSE IF reply.hasResult THEN "resolved"
  ELSE "orphaned"

\* cancelAll() / dispose(): reject every pending promise, clear the table.
rejectAllPending(how) ==
  /\ outcome' = [id \in Ids |-> IF id \in pending THEN how ELSE outcome[id]]
  /\ settles' = [id \in Ids |-> IF id \in pending THEN settles[id] + 1 ELSE settles[id]]
  /\ pending' = {}


\* this.worker.onmessage, lines 175-185, for the reply at the head of the
\* channel: an id that is no longer pending is ignored.
onmessage(reply) ==
  IF reply.id \in pending
    THEN /\ pending' = pending \ {reply.id}
         /\ outcome' = [outcome EXCEPT ![reply.id] = settleOnReply(reply)]
         /\ settles' = [settles EXCEPT ![reply.id] =
                          IF settleOnReply(reply) \in Settled THEN @ + 1 ELSE @]
    ELSE UNCHANGED <<pending, outcome, settles>>

\* ------------------------------------------------------------------------
\* Part I.b  BoardRecognitionDialog
\* ------------------------------------------------------------------------
MaxSeq == 2             \* reclassify requests scheduled or issued in one run

\* clearTimeout(debounceRef.current): a cleared or fired id is a no-op.
clearTimeoutKeepsTimer(ts, ref) == ts
clearTimeout(ts, ref) == {t \in ts : t.tid # ref}

\* The continuation the recognition effect attaches (then / catch / finally),
\* run when the promise of request id settles as `how` with result r.
recognizeSettled(id, how, r) ==
  LET live == ~handler[id].cancelled IN
  /\ corners' = IF live /\ how = "resolved" THEN r.corners ELSE corners
  /\ result' = IF live /\ how = "resolved" THEN <<r>> ELSE result
  /\ loadError' = IF live /\ how # "resolved" THEN TRUE ELSE loadError
  /\ analyzing' = IF live THEN FALSE ELSE analyzing
  /\ replyView' = [replyView EXCEPT ![id] =
        [handled |-> TRUE, staleIntent |-> handler[id].intent # intentSeq,
         staleSeq |-> FALSE, applied |-> live /\ how = "resolved"]]

\* The continuation scheduleReclassify / reclassifyWithHints / doReclassifyNow
\* attach: the result is applied only when the sequence number is still seq.
seqIsCurrent(id) == reclassifySeqRef = handler[id].seq

reclassifySettled(id, how, r) ==
  /\ result' = IF seqIsCurrent(id) /\ how = "resolved" THEN <<r>> ELSE result
  /\ analyzing' = IF seqIsCurrent(id) THEN FALSE ELSE analyzing
  /\ replyView' = [replyView EXCEPT ![id] =
        [handled |-> TRUE, staleIntent |-> handler[id].intent # intentSeq,
         staleSeq |-> reclassifySeqRef # handler[id].seq,
         applied |-> seqIsCurrent(id) /\ how = "resolved"]]
  /\ UNCHANGED <<corners, loadError>>

\* Promise continuations run as microtasks right after the promise settles;
\* a promise that is neither resolved nor rejected runs none.
dialogOnSettle(id, how, r) ==
  /\ CASE how \in Settled /\ handler[id].kind = "recognize" -> recognizeSettled(id, how, r)
       [] how \in Settled /\ handler[id].kind = "reclassify" -> reclassifySettled(id, how, r)
       [] OTHER -> UNCHANGED <<corners, result, loadError, analyzing, replyView>>
  /\ UNCHANGED <<mounted, rawImage, boardSize, hints, gridCorners, timers, debounceRef,
                 reclassifySeqRef, handler, effectReq, intentSeq, lastDrag>>

\* Body of the recognition effect (deps [rawImage, boardSize]) for the new
\* values img, size, preceded by the cleanup of the previous run.
recognitionEffect(img, size) ==
  LET cleaned == IF effectReq = 0 THEN handler
                 ELSE [handler EXCEPT ![effectReq].cancelled = TRUE] IN
  IF ~img \/ size = 0
    THEN /\ handler' = cleaned
         /\ effectReq' = 0
         /\ UNCHANGED <<analyzing, result, hints, intentSeq>>
         /\ UNCHANGED facadeVars
    ELSE /\ analyzing' = TRUE
         /\ result' = <<>>
         /\ hints' = {}
         /\ recognizeBoard(size)
         /\ intentSeq' = intentSeq + 1
         /\ effectReq' = nextId
         /\ handler' = [cleaned EXCEPT ![nextId] =
               [kind |-> "recognize", seq |-> 0, cancelled |-> FALSE, intent |-> intentSeq + 1]]

\* fileToDownscaledImage resolves: setRawImage(raw).
ImageLoaded ==
  /\ UNCHANGED nonRecVars
  /\ mounted /\ ~rawImage
  /\ rawImage' = TRUE
  /\ recognitionEffect(TRUE, boardSize)
  /\ UNCHANGED <<mounted, boardSize, corners, loadError, gridCorners, timers, debounceRef,
                 reclassifySeqRef, replyView, lastDrag>>

\* A board-size button: setBoardSize(s).
SetBoardSize(s) ==
  /\ UNCHANGED nonRecVars
  /\ mounted /\ s # boardSize
  /\ boardSize' = s
  /\ recognitionEffect(rawImage, s)
  /\ UNCHANGED <<mounted, rawImage, corners, loadError, gridCorners, timers, debounceRef,
                 reclassifySeqRef, replyView, lastDrag>>

\* History bookkeeping: the pending drag was overtaken by another event.
interruptDrag ==
  IF lastDrag # <<>> /\ lastDrag[1].posted = <<>>
    THEN <<[lastDrag[1] EXCEPT !.interrupted = TRUE]>>
    ELSE lastDrag

\* onPointerUp at the end of a corner drag that leaves the corners at c,
\* including its call of scheduleReclassify(ordered).
DragComplete(c) ==
  /\ UNCHANGED nonRecVars
  /\ mounted /\ corners # 0
  /\ rawImage /\ boardSize # 0
  /\ reclassifySeqRef < MaxSeq
  /\ corners' = c
  /\ hints' = {}
  /\ reclassifySeqRef' = reclassifySeqRef + 1
  /\ intentSeq' = intentSeq + 1
  /\ timers' = clearTimeout(timers, debounceRef) \cup
                 {[tid |-> reclassifySeqRef + 1, remaining |-> RECLASSIFY_DEBOUNCE_MS,
                   corners |-> c, seq |-> reclassifySeqRef + 1, boardSize |-> boardSize,
                   intent |-> intentSeq + 1]}
  /\ debounceRef' = reclassifySeqRef + 1
  /\ lastDrag' = <<[corners |-> c, elapsed |-> 0, interrupted |-> FALSE, posted |-> <<>>,
                    burst |-> IF timers # {} /\ lastDrag # <<>> THEN lastDrag[1].burst + 1 ELSE 1]>>
  /\ UNCHANGED <<mounted, rawImage, boardSize, result, analyzing, loadError, gridCorners,
                 handler, effectReq, replyView>>
  /\ UNCHANGED facadeVars

\* Time passes by TickMs; no timer is overdue.
Tick ==
  /\ UNCHANGED nonRecVars
  /\ timers # {}
  /\ \A t \in timers : t.remaining >= TickMs
  /\ timers' = {[t EXCEPT !.remaining = @ - TickMs] : t \in timers}
  /\ lastDrag' = IF lastDrag # <<>> /\ lastDrag[1].posted = <<>> /\ ~lastDrag[1].interrupted
                   THEN <<[lastDrag[1] EXCEPT !.elapsed = @ + TickMs]>>
                   ELSE lastDrag
  /\ UNCHANGED <<mounted, rawImage, boardSize, corners, result, analyzing, loadError, hints,
                 gridCorners, debounceRef, reclassifySeqRef, handler, effectReq, intentSeq,
                 replyView>>
  /\ UNCHANGED facadeVars

\* The setTimeout callback of scheduleReclassify, for a due timer t.
DebounceFire(t) ==
  /\ UNCHANGED nonRecVars
  /\ t \in timers /\ t.remaining = 0
  /\ timers' = timers \ {t}
  /\ IF ~mounted
       THEN /\ UNCHANGED <<analyzing, handler, lastDrag>>
            /\ UNCHANGED facadeVars
       ELSE /\ analyzing' = TRUE
            /\ reclassifyWithCorners(t.corners, t.boardSize, 0)
            /\ handler' = [handler EXCEPT ![nextId] =
                  [kind |-> "reclassify", seq |-> t.seq, cancelled |-> FALSE, intent |-> t.intent]]
            /\ lastDrag' = IF lastDrag # <<>>
                             THEN <<[lastDrag[1] EXCEPT !.posted = Append(@, t.corners)]>>
                             ELSE lastDrag
  /\ UNCHANGED <<mounted, rawImage, boardSize, corners, result, loadError, hints, gridCorners,
                 debounceRef, reclassifySeqRef, effectReq, intentSeq, replyView>>


\* Body shared by reclassifyWithHints (lines 601-635) and doReclassifyNow
\* (lines 638-678): clear the debounce timer, take a new sequence number,
\* post the request at once and attach the sequence-guarded continuation.
reclassifyNow(type, c, h, gc) ==
  /\ rawImage /\ boardSize # 0 /\ mounted
  /\ reclassifySeqRef < MaxSeq
  /\ timers' = clearTimeout(timers, debounceRef)
  /\ reclassifySeqRef' = reclassifySeqRef + 1
  /\ intentSeq' = intentSeq + 1
  /\ analyzing' = TRUE
  /\ IF type = "reclassifyWithHints"
       THEN reclassifyWithHints(c, h, boardSize, gc)
       ELSE reclassifyWithCorners(c, boardSize, gc)
  /\ handler' = [handler EXCEPT ![nextId] =
        [kind |-> "reclassify", seq |-> reclassifySeqRef + 1, cancelled |-> FALSE,
         intent |-> intentSeq + 1]]
  /\ lastDrag' = interruptDrag

\* The warped preview and the calibration toolbar are rendered only while
\* a result is shown and no analysis is running.
previewShown == mounted /\ ~analyzing /\ boardSize # 0 /\ result # <<>>

\* onPreviewClick(col, row) in a calibration mode: add or replace the hint
\* at p, then reclassifyWithHints(updated).
HintClick(p) ==
  /\ UNCHANGED nonRecVars
  /\ previewShown
  /\ corners # 0
  /\ hints' = hints \cup {p}
  /\ reclassifyNow("reclassifyWithHints", corners, hints \cup {p}, gridCorners)
  /\ UNCHANGED <<mounted, rawImage, boardSize, corners, result, loadError, gridCorners,
                 debounceRef, effectReq, replyView>>

\* onGridClick completing or fine-tuning the grid quadrilateral (gc = UserGrid)
\* and resetGrid (gc = 0): setGridCorners(gc), setHints([]), doReclassifyNow.
GridEdit(gc) ==
  /\ UNCHANGED nonRecVars
  /\ previewShown
  /\ gc = 0 => gridCorners # 0
  /\ corners # 0
  /\ gridCorners' = gc
  /\ hints' = {}
  /\ reclassifyNow("reclassifyWithCorners", corners, {}, gc)
  /\ UNCHANGED <<mounted, rawImage, boardSize, corners, result, loadError,
                 debounceRef, effectReq, replyView>>

\* The reset-calibration button, rendered while hints.length > 0.
ResetCalibration ==
  /\ UNCHANGED nonRecVars
  /\ previewShown
  /\ hints # {}
  /\ corners # 0
  /\ hints' = {}
  /\ reclassifyNow("reclassifyWithCorners", corners, {}, gridCorners)
  /\ UNCHANGED <<mounted, rawImage, boardSize, corners, result, loadError, gridCorners,
                 debounceRef, effectReq, replyView>>

\* self.onmessage in the worker handles the oldest message.
WorkerHandle(err) ==
  /\ UNCHANGED nonRecVars
  /\ inbox # <<>>
  /\ ~workerTerminated
  /\ replies' = Append(replies, workerReply(Head(inbox), err))
  /\ inbox' = Tail(inbox)
  /\ UNCHANGED <<nextId, pending, outcome, settles, workerTerminated, disposeRun>>
  /\ UNCHANGED dialogVars

\* The oldest reply reaches this.worker.onmessage; the continuations of
\* the settled promise run before anything else happens.
DeliverReply ==
  /\ UNCHANGED nonRecVars
  /\ replies # <<>>
  /\ ~workerTerminated
  /\ onmessage(Head(replies))
  /\ replies' = Tail(replies)
  /\ dialogOnSettle(Head(replies).id,
                    IF Head(replies).id \in pending THEN settleOnReply(Head(replies)) ELSE "ignored",
                    Head(replies).result)
  /\ UNCHANGED <<nextId, inbox, workerTerminated, disposeRun>>

\* dispose(), lines 268-274. terminate() discards every message in flight.
disposeKeepsPending ==
  /\ UNCHANGED <<pending, outcome, settles>>
  /\ workerTerminated' = TRUE
  /\ inbox' = <<>>
  /\ replies' = <<>>
  /\ disposeRun' = disposeRun + 1
  /\ UNCHANGED nextId

dispose ==
  /\ rejectAllPending("rejected_disposed")
  /\ workerTerminated' = TRUE
  /\ inbox' = <<>>
  /\ replies' = <<>>
  /\ disposeRun' = disposeRun + 1
  /\ UNCHANGED nextId

\* cancelAll(), lines 277-282.
cancelAllKeepsPending ==
  /\ outcome' = [id \in Ids |-> IF id \in pending THEN "rejected_cancelled" ELSE outcome[id]]
  /\ settles' = [id \in Ids |-> IF id \in pending THEN settles[id] + 1 ELSE settles[id]]
  /\ disposeRun' = 0
  /\ UNCHANGED <<pending, nextId, inbox, replies, workerTerminated>>

cancelAll ==
  /\ rejectAllPending("rejected_cancelled")
  /\ disposeRun' = 0
  /\ UNCHANGED <<nextId, inbox, replies, workerTerminated>>

\* Cleanup of the worker-lifecycle effect (w.dispose(); workerRef.current =
\* null) and of the recognition effect (cancelled = true) on unmount. The
\* debounce timer is not cleared. State setters of an unmounted component
\* do nothing, so the rejected promises' continuations change nothing.
Unmount ==
  /\ UNCHANGED nonRecVars
  /\ mounted
  /\ mounted' = FALSE
  /\ dispose
  /\ handler' = IF effectReq = 0 THEN handler ELSE [handler EXCEPT ![effectReq].cancelled = TRUE]
  /\ lastDrag' = interruptDrag
  /\ UNCHANGED <<rawImage, boardSize, corners, result, analyzing, loadError, hints, gridCorners,
                 timers, debounceRef, reclassifySeqRef, effectReq, intentSeq, replyView>>

\* ---- the facade driven by an arbitrary caller ----------------------------
ClientRequest(type) ==
  /\ UNCHANGED nonRecVars
  /\ CASE type = "recognizeBoard" -> recognizeBoard(9)
       [] type = "reclassifyWithCorners" -> reclassifyWithCorners(DetectedCorners, 9, 0)
       [] OTHER -> reclassifyWithHints(DetectedCorners, {}, 9, 0)
  /\ UNCHANGED dialogVars

CancelAll ==
  /\ UNCHANGED nonRecVars
  /\ cancelAll
  /\ UNCHANGED dialogVars

Dispose ==
  /\ UNCHANGED nonRecVars
  /\ disposeRun < MaxDisposeRun
  /\ dispose
  /\ UNCHANGED dialogVars

RecInit ==
  /\ nextId = 1
  /\ pending = {}
  /\ outcome = [id \in Ids |-> "none"]
  /\ settles = [id \in Ids |-> 0]
  /\ inbox = <<>>
  /\ replies = <<>>
  /\ workerTerminated = FALSE
  /\ disposeRun = 0
  /\ mounted = TRUE
  /\ rawImage = FALSE
  /\ boardSize = 0
  /\ corners = 0
  /\ result = <<>>
  /\ analyzing = FALSE
  /\ loadError = FALSE
  /\ hints = {}
  /\ gridCorners = 0
  /\ timers = {}
  /\ debounceRef = 0
  /\ reclassifySeqRef = 0
  /\ handler = [id \in Ids |-> NoHandler]
  /\ effectReq = 0
  /\ intentSeq = 0
  /\ replyView = [id \in Ids |-> NoView]
  /\ lastDrag = <<>>

ErrorMessages == {"none", "", "failed"}
RequestTypes == {"recognizeBoard", "reclassifyWithCorners", "reclassifyWithHints"}

FacadeNext ==
  \/ \E type \in RequestTypes : ClientRequest(type)
  \/ \E err \in ErrorMessages : WorkerHandle(err)
  \/ DeliverReply
  \/ CancelAll
  \/ Dispose

DialogNext ==
  \/ ImageLoaded
  \/ \E s \in BoardSizes : SetBoardSize(s)
  \/ \E c \in DragCorners : DragComplete(c)
  \/ Tick
  \/ \E t \in timers : DebounceFire(t)
  \/ \E p \in HintPoints : HintClick(p)
  \/ \E gc \in {0, UserGrid} : GridEdit(gc)
  \/ ResetCalibration
  \/ \E err \in ErrorMessages : WorkerHandle(err)
  \/ DeliverReply
  \/ Unmount



\* ------------------------------------------------------------------------
\* Part I: properties
\* ------------------------------------------------------------------------

\* C1: a reply is applied to the displayed result (setResult / setCorners)
\* only if no newer request was issued or scheduled after the request it
\* answers. Fails: the recognition effect filters by its `cancelled` flag
\* and the reclassify paths by reclassifySeqRef, and neither sees the other.
C1_StaleReplyNeverApplied ==
  \A id \in Ids : replyView[id].applied => ~replyView[id].staleIntent

\* C2: a reclassification request superseded (by sequence number) before
\* its reply returned has its result discarded and its promise rejected
\* with the cancelled error. Fails: the promise is resolved.
C2_SupersededIsRejectedCancelled ==
  \A id \in Ids :
    (handler[id].kind = "reclassify" /\ replyView[id].handled /\ replyView[id].staleSeq
       /\ outcome[id] # "rejected_error")
      => (outcome[id] = "rejected_cancelled" /\ ~replyView[id].applied)

\* C3: every request whose reply reached the facade while it was pending
\* has a settled promise (resolved on a result, rejected on an error).
\* Fails for a reply whose error message is the empty string.
C3_EveryReplySettles ==
  \A id \in Ids : outcome[id] # "orphaned"

C5_DisposeIdempotent ==
  [][ disposeRun' = disposeRun + 1 =>
        /\ pending' = {}
        /\ workerTerminated'
        /\ \A id \in pending : outcome'[id] = "rejected_disposed"
        /\ disposeRun >= 1 => (outcome' = outcome /\ settles' = settles)
    ]_vars

\* C5 witness: two consecutive dispose() calls, the first of which rejected
\* a pending request.
C5_Witness ==
  /\ disposeRun = 2
  /\ \E id \in Ids : outcome[id] = "rejected_disposed"

MaxEngines == 3     \* engines createEngine is asked for in one run
MaxCalls == 4       \* initializeEngine / disposeEngine invocations in one run

Configs == {1, 2}   \* values of (modelName, backend, webgpuBatchSize, boardSize)
GpuConfig == 1      \* the configuration whose backend is a GPU one
PortableConfig == 2 \* the same with the backend an engine falls back to
EngineIds == 1..MaxEngines
CallIds == 1..MaxCalls
IdleCall == [kind |-> "none", pc |-> "done", cfg |-> 0, target |-> 0, ok |-> TRUE]

RECURSIVE Ascending(_)
Ascending(S) ==
  IF S = {} THEN <<>>
  ELSE LET m == CHOOSE x \in S : \A y \in S : x <= y
       IN <<m>> \o Ascending(S \ {m})

\* The provider's state as one record, so that a callback's straight-line
\* code reads as successive updates.
CtxState ==
  [inst |-> globalEngineInstance, prom |-> globalEnginePromise, conf |-> globalEngineConfig,
   eng |-> engine, initzing |-> isInitializing, err |-> error,
   trig |-> initializationTriggeredRef, engines |-> engines, engineConfig |-> engineConfig,
   nextEngine |-> nextEngine, calls |-> calls, jobs |-> jobs, disposeOps |-> disposeOps,
   cur |-> currentConfig, overflow |-> FALSE]

CtxAssign(s) ==
  /\ ~s.overflow
  /\ globalEngineInstance' = s.inst
  /\ globalEnginePromise' = s.prom
  /\ globalEngineConfig' = s.conf
  /\ engine' = s.eng
  /\ isInitializing' = s.initzing
  /\ error' = s.err
  /\ initializationTriggeredRef' = s.trig
  /\ engines' = s.engines
  /\ engineConfig' = s.engineConfig
  /\ nextEngine' = s.nextEngine
  /\ calls' = s.calls
  /\ jobs' = s.jobs
  /\ disposeOps' = s.disposeOps
  /\ currentConfig' = s.cur

promiseSettled(s, p) == s.engines[p] # "creating"
promiseResolved(s, p) == s.engines[p] \in {"live", "disposing", "disposed"}

\* await p: the call is suspended on promise p; its continuation is queued
\* at once when p has already settled.
awaitPromise(s, k, pc, c, p) ==
  [s EXCEPT !.calls[k] = [kind |-> "init", pc |-> pc, cfg |-> c, target |-> p, ok |-> TRUE],
            !.jobs = IF promiseSettled(s, p) THEN Append(@, k) ELSE @]

\* engine.dispose() is started on engine e and awaited by call k.
startDispose(s, k, kind, c, e) ==
  [s EXCEPT !.engines[e] = IF @ = "live" THEN "disposing" ELSE @,
            !.disposeOps = Append(@, [call |-> k, eng |-> e]),
            !.calls[k] = [kind |-> kind, pc |-> "awaitDispose", cfg |-> c, target |-> e,
                          ok |-> TRUE]]

\* if (!globalEnginePromise) globalEnginePromise = (async () => ... createEngine ...)();
\* const newEngine = await globalEnginePromise;
createAndAwait(s, k, c) ==
  IF s.prom # 0 THEN awaitPromise(s, k, "awaitCreate", c, s.prom)
  ELSE IF s.nextEngine > MaxEngines THEN [s EXCEPT !.overflow = TRUE]
  ELSE LET e == s.nextEngine
           s1 == [s EXCEPT !.engines[e] = "creating", !.engineConfig[e] = c,
                           !.prom = e, !.nextEngine = e + 1]
       IN awaitPromise(s1, k, "awaitCreate", c, e)

\* the finally block, and the call's return
finallyDone(s, k) ==
  [s EXCEPT !.initzing = FALSE, !.trig = FALSE, !.calls[k] = IdleCall]

\* catch (err) { setError(...); globalEnginePromise = null; globalEngineConfig = null }
catchThenFinally(s, k) ==
  finallyDone([s EXCEPT !.err = TRUE, !.prom = 0, !.conf = 0], k)

\* initializeEngine up to its first await (or its return).
initializeEngine(s, k, c, loaded) ==
  LET configChanged == s.conf = 0 \/ s.conf # c IN
  IF s.inst # 0 /\ ~configChanged
    THEN [s EXCEPT !.eng = s.inst, !.err = FALSE]
  ELSE IF ~loaded
    THEN s
  ELSE IF s.trig /\ s.prom # 0
    THEN awaitPromise(s, k, "awaitExisting", c, s.prom)
  ELSE LET s1 == [s EXCEPT !.trig = TRUE, !.initzing = TRUE, !.err = FALSE] IN
       IF s1.inst # 0 /\ configChanged
         THEN startDispose(s1, k, "init", c, s1.inst)
         ELSE createAndAwait(s1, k, c)

\* disposeEngine up to its await (or its return).
disposeEngine(s, k) ==
  IF s.inst # 0
    THEN startDispose(s, k, "dispose", 0, s.inst)
    ELSE [s EXCEPT !.eng = 0, !.err = FALSE]

\* The continuation of call k after the promise it awaits has settled.
resume(s, k) ==
  LET call == s.calls[k] IN
  CASE call.pc = "awaitExisting" ->
         IF promiseResolved(s, call.target)
           THEN [s EXCEPT !.eng = call.target, !.err = FALSE, !.calls[k] = IdleCall]
           ELSE [s EXCEPT !.calls[k] = IdleCall]
    [] call.pc = "awaitDispose" /\ call.kind = "init" ->
         IF call.ok
           THEN createAndAwait([s EXCEPT !.inst = 0, !.prom = 0], k, call.cfg)
           ELSE catchThenFinally(s, k)
    [] call.pc = "awaitDispose" /\ call.kind = "dispose" ->
         [s EXCEPT !.inst = 0, !.prom = 0, !.conf = 0, !.eng = 0, !.err = FALSE,
                   !.calls[k] = IdleCall]
    [] call.pc = "awaitCreate" ->
         IF promiseResolved(s, call.target)
           THEN finallyDone([s EXCEPT !.inst = call.target, !.conf = call.cfg,
                                      !.eng = call.target, !.err = FALSE,
                                      \* setAISettings({ backend: actualBackend })
                                      !.cur = IF call.target \in fellBack
                                                THEN PortableConfig ELSE @], k)
           ELSE catchThenFinally(s, k)

\* The dependencies of the three effects, and whether a flush is due.
effectDeps == <<isModelLoaded, engine, isInitializing, error, currentConfig>>
effectsDue == jobs = <<>> /\ effectDeps # lastDeps
autoInitDue == isModelLoaded /\ engine = 0 /\ ~isInitializing /\ ~error
reInitDue ==
  /\ <<engine, currentConfig>> # <<lastDeps[2], lastDeps[5]>>
  /\ engine # 0 /\ globalEngineConfig # 0 /\ globalEngineConfig # currentConfig

\* A macrotask runs when the microtask queue is empty and no effect is due.
macrotask == jobs = <<>> /\ ~effectsDue

\* ---- actions -----------------------------------------------------------
\* The model finishes loading (isModelLoaded && customAIModel become truthy).
ModelLoaded ==
  /\ macrotask /\ ~isModelLoaded
  /\ isModelLoaded' = TRUE
  /\ UNCHANGED <<globalEngineInstance, globalEnginePromise, globalEngineConfig, engine,
                 isInitializing, error, initializationTriggeredRef, currentConfig, engines,
                 engineConfig, fellBack, nextEngine, calls, nextCall, jobs, disposeOps,
                 lastDeps>>
  /\ UNCHANGED nonCtxVars

\* The user changes the model, the backend, the batch size or the board size.
ConfigChange(c) ==
  /\ macrotask /\ c # currentConfig
  /\ currentConfig' = c
  /\ UNCHANGED <<globalEngineInstance, globalEnginePromise, globalEngineConfig, engine,
                 isInitializing, error, initializationTriggeredRef, isModelLoaded, engines,
                 engineConfig, fellBack, nextEngine, calls, nextCall, jobs, disposeOps,
                 lastDeps>>
  /\ UNCHANGED nonCtxVars

\* The three effects, flushed after a render that changed their dependencies.
RunEffects ==
  /\ effectsDue
  /\ lastDeps' = effectDeps
  /\ IF autoInitDue \/ reInitDue
       THEN /\ nextCall <= MaxCalls
            /\ nextCall' = nextCall + 1
            /\ CtxAssign(initializeEngine(CtxState, nextCall, currentConfig, isModelLoaded))
            /\ UNCHANGED <<isModelLoaded, fellBack>>
       ELSE UNCHANGED <<globalEngineInstance, globalEnginePromise, globalEngineConfig,
                        engine, isInitializing, error, initializationTriggeredRef,
                        isModelLoaded, currentConfig, engines, engineConfig, fellBack,
                        nextEngine, calls, nextCall, jobs, disposeOps>>
  /\ UNCHANGED nonCtxVars

\* A consumer of the context calls initializeEngine().
CallInitialize ==
  /\ macrotask /\ nextCall <= MaxCalls
  /\ nextCall' = nextCall + 1
  /\ CtxAssign(initializeEngine(CtxState, nextCall, currentConfig, isModelLoaded))
  /\ UNCHANGED <<isModelLoaded, fellBack, lastDeps>>
  /\ UNCHANGED nonCtxVars

\* A consumer of the context calls disposeEngine().
CallDispose ==
  /\ macrotask /\ nextCall <= MaxCalls
  /\ nextCall' = nextCall + 1
  /\ CtxAssign(disposeEngine(CtxState, nextCall))
  /\ UNCHANGED <<isModelLoaded, fellBack, lastDeps>>
  /\ UNCHANGED nonCtxVars

\* createEngine settles: the promise of engine e resolves (with or without
\* a backend fallback inside the engine) or rejects; every call awaiting it
\* gets its continuation queued, in the order the calls started to wait.
CreateDone(e, how) ==
  /\ macrotask /\ engines[e] = "creating"
  /\ how = "fallback" => engineConfig[e] = GpuConfig
  /\ engines' = [engines EXCEPT ![e] = IF how = "rejected" THEN "failed" ELSE "live"]
  /\ fellBack' = IF how = "fallback" THEN fellBack \cup {e} ELSE fellBack
  /\ jobs' = Ascending({k \in CallIds : calls[k].pc \in {"awaitExisting", "awaitCreate"}
                                         /\ calls[k].target = e})
  /\ UNCHANGED <<globalEngineInstance, globalEnginePromise, globalEngineConfig, engine,
                 isInitializing, error, initializationTriggeredRef, isModelLoaded,
                 currentConfig, engineConfig, nextEngine, calls, nextCall, disposeOps,
                 lastDeps>>
  /\ UNCHANGED nonCtxVars

\* The oldest engine.dispose() in progress settles.
DisposeDone(ok) ==
  /\ macrotask /\ disposeOps # <<>>
  /\ LET op == Head(disposeOps) IN
       /\ engines' = [engines EXCEPT ![op.eng] = "disposed"]
       /\ calls' = [calls EXCEPT ![op.call].ok = ok]
       /\ jobs' = <<op.call>>
  /\ disposeOps' = Tail(disposeOps)
  /\ UNCHANGED <<globalEngineInstance, globalEnginePromise, globalEngineConfig, engine,
                 isInitializing, error, initializationTriggeredRef, isModelLoaded,
                 currentConfig, engineConfig, fellBack, nextEngine, nextCall, lastDeps>>
  /\ UNCHANGED nonCtxVars

\* The microtask at the head of the queue runs.
Resume ==
  /\ jobs # <<>>
  /\ CtxAssign(resume([CtxState EXCEPT !.jobs = Tail(@)], Head(jobs)))
  /\ UNCHANGED <<isModelLoaded, fellBack, nextCall, lastDeps>>
  /\ UNCHANGED nonCtxVars

CtxInit ==
  /\ globalEngineInstance = 0 /\ globalEnginePromise = 0 /\ globalEngineConfig = 0
  /\ engine = 0 /\ isInitializing = FALSE /\ error = FALSE
  /\ initializationTriggeredRef = FALSE
  /\ isModelLoaded = FALSE
  /\ currentConfig = GpuConfig
  /\ engines = [e \in EngineIds |-> "none"]
  /\ engineConfig = [e \in EngineIds |-> 0]
  /\ fellBack = {}
  /\ nextEngine = 1
  /\ calls = [k \in CallIds |-> IdleCall]
  /\ nextCall = 1
  /\ jobs = <<>>
  /\ disposeOps = <<>>
  /\ lastDeps = <<FALSE, 0, FALSE, FALSE, currentConfig>>

CtxNext ==
  \/ ModelLoaded
  \/ \E c \in Configs : ConfigChange(c)
  \/ RunEffects
  \/ CallInitialize
  \/ CallDispose
  \/ \E e \in EngineIds, how \in {"resolved", "fallback", "rejected"} : CreateDone(e, how)
  \/ \E ok \in BOOLEAN : DisposeDone(ok)
  \/ Resume

\* C7: at most one live engine exists at any time: a new engine is created
\* only when none exists or is being created, and the engine of a previous
\* configuration is disposed before its replacement is created.
C7_AtMostOneLiveEngine ==
  Cardinality({e \in EngineIds : engines[e] \in {"creating", "live"}}) <= 1

\* ------------------------------------------------------------------------
\* Part III  OnnxEngine
\* ------------------------------------------------------------------------
Unset == <<"undefined">>  \* config.executionProviders was not given
ProviderLists ==
  {Unset, <<"webgpu", "wasm">>, <<"webgpu">>, <<"webnn", "wasm">>, <<"wasm">>,
   <<"wasm", "webgpu">>, <<"webgpu", "webnn">>, <<"webgl", "wasm">>}
GpuProviders == {"webgpu", "webnn"}
NoAnalysis == [kind |-> "none", outcome |-> "none", after |-> "none"]
NoRun == [path |-> "none", inputs |-> <<>>, results |-> <<>>, ran |-> <<>>, chunks |-> <<>>,
          feeds |-> <<>>, errors |-> <<>>, outcome |-> "none", tensors |-> <<>>, size |-> 0]

includes(s, x) == \E i \in 1..Len(s) : s[i] = x
notWebgl(p) == p # "webgl"
notWebgpu(p) == p # "webgpu"
notWebnn(p) == p # "webnn"
isGpu(p) == p \in GpuProviders
notGpu(p) == p \notin GpuProviders
hasGpu(s) == \E i \in 1..Len(s) : isGpu(s[i])

\* let providers = config.executionProviders || ['webgpu', 'wasm'], without webgl
requestedOf(cfg) ==
  SelectSeq(IF cfg = Unset THEN <<"webgpu", "wasm">> ELSE cfg, notWebgl)

\* the provider list after the availability filters
effectiveOf(req, webgpuAvailable, mlInNavigator) ==
  LET p1 == IF ~webgpuAvailable THEN SelectSeq(req, notWebgpu) ELSE req
  IN IF includes(req, "webnn") /\ ~mlInNavigator THEN SelectSeq(p1, notWebnn) ELSE p1

\* if (hasGpu && effectiveProviders.length > 1)
shouldFallbackAnyGpu(eff) == hasGpu(eff)
shouldFallback(eff) == hasGpu(eff) /\ Len(eff) > 1

\* usedProviderNames of the retry
fallbackProviders(eff) ==
  LET rest == SelectSeq(eff, notGpu) IN IF rest = <<>> THEN <<"wasm">> ELSE rest

\* requestedProviders.find(p => ['webgpu', 'webnn'].includes(p)) || requestedProviders[0]
firstRequested(req) == req[1]
gpuRequested(req) ==
  IF hasGpu(req) THEN SelectSeq(req, isGpu)[1] ELSE req[1]

\* getRuntimeInfo()
getRuntimeInfo ==
  [backend |->
     IF includes(usedProviders, "webgpu")
       THEN (IF graphCaptureEnabled THEN "webgpu-gc" ELSE "webgpu")
     ELSE IF includes(usedProviders, "webnn") THEN "webnn"
     ELSE IF includes(usedProviders, "wasm") THEN "wasm"
     ELSE IF Len(usedProviders) > 0 THEN usedProviders[1]
     ELSE "wasm",
   didFallback |-> didFallback,
   requestedBackend |->
     IF didFallback /\ Len(requestedProviders) > 0
       THEN gpuRequested(requestedProviders) ELSE "undefined"]

\* config.staticBatchSize, else the first dimension of the model's first
\* input; 0 stands for neither being given.
StaticBatchSizes == {0, 1, 2}
Infinity == 1000

\* enableGraphCapture implies static batch = 1
clampBatch(gc, batch) == IF gc /\ batch > 1 THEN 1 ELSE batch

\* What follows a successful createSession, up to the await of
\* allocateGpuBuffers (or to the end when graph capture is off).
sessionCreated(gc) ==
  /\ session' = TRUE
  /\ initialized' = TRUE
  /\ usedProviders' = usedProviderNames
  /\ didFallback' = (didFallback \/ (hasGpu(requestedProviders) /\ ~hasGpu(usedProviderNames)))
  /\ \E staticBatch \in StaticBatchSizes :
       maxInferenceBatch' = clampBatch(gc, IF staticBatch > 0 THEN staticBatch
                                                             ELSE maxInferenceBatch)
  /\ \E detectedFp16 \in BOOLEAN :
       inputDataType' = IF detectedFp16 THEN "float16" ELSE "float32"
  /\ IF gc THEN initPc' = "allocate" /\ lastInit' = lastInit
           ELSE initPc' = "idle" /\ lastInit' = "ok"

\* catch (e) { console.error(...); throw e }
initializeRejects ==
  /\ initPc' = "idle"
  /\ lastInit' = "rejected"

\* ---- actions -----------------------------------------------------------
\* initialize() up to the first createSession (the adapter request, which
\* is awaited before anything is written, is folded in).  One initialize()
\* runs at a time.
InitializeStart(webgpuAvailable, mlInNavigator) ==
  /\ initPc = "idle"
  /\ IF initialized
       THEN UNCHANGED <<requestedProviders, effProviders, usedProviderNames,
                        graphCaptureEnabled, useGpuInputs, initPc, initTried>>
       ELSE LET req == requestedOf(cfgProviders)
                eff == effectiveOf(req, webgpuAvailable, mlInNavigator)
                gc == includes(eff, "webgpu") /\ cfgEnableGraphCapture
            IN /\ requestedProviders' = req
               /\ effProviders' = eff
               /\ usedProviderNames' = eff
               /\ graphCaptureEnabled' = (IF gc THEN TRUE ELSE graphCaptureEnabled)
               /\ useGpuInputs' = (IF gc THEN TRUE ELSE useGpuInputs)
               /\ initPc' = "create1"
               /\ initTried' = FALSE
  /\ lastInit' = IF initialized THEN "ok" ELSE lastInit
  /\ UNCHANGED <<cfgProviders, cfgEnableGraphCapture, cfgHasModel, session, initialized,
                 usedProviders, didFallback, gpuBuffers, lastAnalyze, inputDataType,
                 maxInferenceBatch>>
  /\ UNCHANGED analysisVars
  /\ UNCHANGED nonOnnxVars

\* The first createSession settles.  Without a model it throws.
Create1Done(ok) ==
  /\ initPc = "create1"
  /\ ok => cfgHasModel
  /\ IF ok
       THEN /\ sessionCreated(graphCaptureEnabled)
            /\ UNCHANGED <<usedProviderNames, graphCaptureEnabled, useGpuInputs, initTried>>
       ELSE IF shouldFallback(effProviders)
       THEN /\ usedProviderNames' = fallbackProviders(effProviders)
            /\ didFallback' = TRUE
            /\ graphCaptureEnabled' = FALSE
            /\ useGpuInputs' = FALSE
            /\ initPc' = "create2"
            /\ initTried' = TRUE
            /\ UNCHANGED <<session, initialized, usedProviders, lastInit, inputDataType,
                           maxInferenceBatch>>
       ELSE /\ initializeRejects
            /\ UNCHANGED <<session, initialized, usedProviders, didFallback,
                           usedProviderNames, graphCaptureEnabled, useGpuInputs, initTried,
                           inputDataType, maxInferenceBatch>>
  /\ UNCHANGED <<cfgProviders, cfgEnableGraphCapture, cfgHasModel, requestedProviders,
                 effProviders, gpuBuffers, lastAnalyze>>
  /\ UNCHANGED analysisVars
  /\ UNCHANGED nonOnnxVars

\* The retry without the GPU providers settles.
Create2Done(ok) ==
  /\ initPc = "create2"
  /\ ok => cfgHasModel
  /\ IF ok
       THEN sessionCreated(graphCaptureEnabled)
       ELSE /\ initializeRejects
            /\ UNCHANGED <<session, initialized, usedProviders, didFallback, inputDataType,
                           maxInferenceBatch>>
  /\ UNCHANGED <<cfgProviders, cfgEnableGraphCapture, cfgHasModel, requestedProviders,
                 effProviders, usedProviderNames, graphCaptureEnabled, useGpuInputs,
                 gpuBuffers, initTried, lastAnalyze>>
  /\ UNCHANGED analysisVars
  /\ UNCHANGED nonOnnxVars

\* allocateGpuBuffers settles; a failure only turns graph capture off.
AllocateDone(ok) ==
  /\ initPc = "allocate"
  /\ gpuBuffers' = ok
  /\ graphCaptureEnabled' = (IF ok THEN graphCaptureEnabled ELSE FALSE)
  /\ useGpuInputs' = (IF ok THEN useGpuInputs ELSE FALSE)
  /\ initPc' = "idle"
  /\ lastInit' = "ok"
  /\ UNCHANGED <<cfgProviders, cfgEnableGraphCapture, cfgHasModel, session, initialized,
                 usedProviders, requestedProviders, didFallback, effProviders,
                 usedProviderNames, initTried, lastAnalyze, inputDataType,
                 maxInferenceBatch>>
  /\ UNCHANGED analysisVars
  /\ UNCHANGED nonOnnxVars

\* analyzePosition / analyzeBatch: the guard at their head.
Analyze(kind) ==
  /\ LET refused == IF kind = "position" THEN ~session ELSE ~initialized \/ ~session
     IN lastAnalyze' = [kind |-> kind,
                        outcome |-> IF refused THEN "Engine not initialized" ELSE "ran",
                        after |-> IF initPc = "idle" THEN lastInit ELSE "running"]
  /\ lastAnalyze' # lastAnalyze
  /\ UNCHANGED <<cfgProviders, cfgEnableGraphCapture, cfgHasModel, session, initialized,
                 usedProviders, requestedProviders, didFallback, graphCaptureEnabled,
                 useGpuInputs, gpuBuffers, initPc, effProviders, usedProviderNames,
                 initTried, lastInit, inputDataType, maxInferenceBatch>>
  /\ UNCHANGED analysisVars
  /\ UNCHANGED nonOnnxVars

OnnxInit ==
  /\ cfgProviders \in ProviderLists
  /\ cfgEnableGraphCapture \in BOOLEAN
  /\ cfgHasModel \in BOOLEAN
  /\ session = FALSE
  /\ initialized = FALSE
  /\ usedProviders = <<>>
  /\ requestedProviders = <<>>
  /\ didFallback = FALSE
  /\ graphCaptureEnabled = FALSE
  /\ useGpuInputs = FALSE
  /\ gpuBuffers = FALSE
  /\ initPc = "idle"
  /\ effProviders = <<>>
  /\ usedProviderNames = <<>>
  /\ initTried = FALSE
  /\ lastInit = "none"
  /\ lastAnalyze = NoAnalysis
  /\ cfgEnableCache \in BOOLEAN
  /\ inputDataType = "float32"
  /\ maxInferenceBatch = Infinity
  /\ cache = <<>>
  /\ inserted = <<>>
  /\ lastRun = NoRun

OnnxNext ==
  \/ \E webgpuAvailable \in BOOLEAN, mlInNavigator \in BOOLEAN :
       InitializeStart(webgpuAvailable, mlInNavigator)
  \/ \E ok \in BOOLEAN : Create1Done(ok)
  \/ \E ok \in BOOLEAN : Create2Done(ok)
  \/ \E ok \in BOOLEAN : AllocateDone(ok)
  \/ \E kind \in {"position", "batch"} : Analyze(kind)

\* ------------------------------------------------------------------------
\* Part IV  OnnxEngine: session runs, batches and the cache
\* ------------------------------------------------------------------------
MaxPositions == 2    \* distinct (position, options) pairs analysed in one run
MaxBatch == 2        \* inputs of one analyzeBatch call
maxCacheSize == 1    \* config.maxCacheSize

CacheKeys == 1..MaxPositions   \* getCacheKey(signMap, options)
NetOutputs == {1, 2}           \* what the network returns for a position in one run
RunErrors == {"none", "fp16", "other"}  \* "fp16": 'expected: (tensor(float16))'
BatchInputs == UNION {[1..n -> CacheKeys] : n \in 1..MaxBatch}

Min(a, b) == IF a < b THEN a ELSE b
cacheKeys(c) == {c[i].key : i \in 1..Len(c)}
keySeq(c) == [i \in 1..Len(c) |-> c[i].key]

\* this.cache.get(cacheKey): <<>> when absent
cacheNeverHits(c, k) == <<>>
cacheGet(c, k) ==
  IF k \in cacheKeys(c)
    THEN <<c[CHOOSE i \in 1..Len(c) : c[i].key = k].value>>
    ELSE <<>>

\* this.cache.set(cacheKey, result): a Map keeps the position of a key it
\* already holds
cacheSet(c, k, v) ==
  IF k \in cacheKeys(c)
    THEN [i \in 1..Len(c) |-> IF c[i].key = k THEN [key |-> k, value |-> v] ELSE c[i]]
    ELSE Append(c, [key |-> k, value |-> v])

\* if (this.cache.size > maxCacheSize) this.cache.delete(this.cache.keys().next().value)
evictNewest(c) == IF Len(c) > maxCacheSize THEN SubSeq(c, 1, Len(c) - 1) ELSE c
evict(c) == IF Len(c) > maxCacheSize THEN Tail(c) ELSE c

\* the keys that entered the cache, the most recent maxCacheSize of them
noteInserted(ins, c, k) ==
  IF k \in cacheKeys(c) THEN ins
  ELSE LET all == Append(ins, k)
       IN IF Len(all) > maxCacheSize
            THEN SubSeq(all, Len(all) - maxCacheSize + 1, Len(all)) ELSE all

\* this.inputDataType after a failed run of a single evaluation
typeAfterAnyError(err, type) == IF err # "none" THEN "float16" ELSE type
typeAfterError(err, type) ==
  IF err = "fp16" /\ type = "float32" THEN "float16" ELSE type

\* _evaluateSingle / _evaluateSingleBuffered on position k: one run, and a
\* second one when the first fails with the float16 message while float32
\* is fed.  path is "single" (analyzePosition) or "leaf" (_runMCTS).
\* the input tensors of one session.run, bin_input and global_input together:
\* the pre-allocated ones of uploadToGpu (device) or new ones of createTensor
\* (host), and whether dispose() was called on them
\* allocateGpuBuffers: const size = 19, const batchSize = 1
gpuBinDims == <<1, 22, 19, 19>>

\* dims is the shape of binTensor and data the number of elements of the
\* bin_input written for the run
inputTensors(usingGpuBuffers, disposed, thisBatch, size) ==
  [kind |-> IF usingGpuBuffers THEN "device" ELSE "host", disposed |-> disposed,
   dims |-> IF usingGpuBuffers THEN gpuBinDims ELSE <<thisBatch, 22, size, size>>,
   data |-> thisBatch * 22 * size * size]

\* board.width of the position of a cache key: the positions analysed are of
\* a 19x19 and of a 9x9 game
widthOf(k) == IF k % 2 = 1 THEN 19 ELSE 9

EvaluateSingle(path, k, err1, err2, out) ==
  /\ session
  /\ lastRun = NoRun
  /\ LET retried == err1 = "fp16" /\ inputDataType = "float32"
         type2 == typeAfterError(err1, inputDataType)
         errors == IF retried THEN <<err1, err2>> ELSE <<err1>>
         ok == errors[Len(errors)] = "none"
     IN /\ ~retried => err2 = "none"
        /\ inputDataType' = type2
        /\ lastRun' = [path |-> path, inputs |-> <<k>>,
                       results |-> IF ok THEN <<[key |-> k, out |-> out]>> ELSE <<>>,
                       ran |-> <<1>>, chunks |-> <<>>,
                       feeds |-> IF retried THEN <<inputDataType, type2>>
                                            ELSE <<inputDataType>>,
                       errors |-> errors,
                       outcome |-> IF ok THEN "returned" ELSE "rethrown",
                       size |-> widthOf(k),
                       tensors |->
                         LET usingGpuBuffers == useGpuInputs /\ gpuBuffers
                             size == widthOf(k)
                         IN IF retried
                              THEN << inputTensors(usingGpuBuffers, ~usingGpuBuffers, 1, size),
                                      inputTensors(FALSE, err2 = "none", 1, size) >>
                              ELSE << inputTensors(usingGpuBuffers,
                                                   err1 = "none" /\ ~usingGpuBuffers,
                                                   1, size) >>]
  /\ UNCHANGED <<cfgProviders, cfgEnableGraphCapture, cfgHasModel, session, initialized,
                 usedProviders, requestedProviders, didFallback, graphCaptureEnabled,
                 useGpuInputs, gpuBuffers, initPc, effProviders, usedProviderNames,
                 initTried, lastInit, lastAnalyze, cfgEnableCache, maxInferenceBatch,
                 cache, inserted>>
  /\ UNCHANGED nonOnnxVars

NoResult == [key |-> 0, out |-> 0]

\* the inputs analyzeBatch has to run: their indices, in input order
uncachedOf(inputs, c, useCache) ==
  SelectSeq([i \in 1..Len(inputs) |-> i],
            LAMBDA i : ~(useCache /\ cacheGet(c, inputs[i]) # <<>>))

\* for (chunkStart = 0; chunkStart < actualBatchSize; chunkStart += chunkSize)
RECURSIVE chunksFrom(_, _, _)
chunksFrom(chunkStart, actualBatchSize, chunkSize) ==
  IF chunkStart >= actualBatchSize THEN <<>>
  ELSE <<[from |-> chunkStart, to |-> Min(chunkStart + chunkSize, actualBatchSize)]>>
       \o chunksFrom(chunkStart + chunkSize, actualBatchSize, chunkSize)

\* results[originalIndex] = result
resultIndexIsSlot(uncached, b) == b
resultIndex(uncached, b) == uncached[b]

\* the loop "Store in cache; filter ko moves", from slot b on
RECURSIVE storeResults(_, _, _, _, _)
storeResults(st, b, uncached, allBatchResults, useCache) ==
  IF b > Len(uncached) THEN st
  ELSE LET r == allBatchResults[b]
           i == resultIndex(uncached, b)
           st1 == [st EXCEPT !.results[i] = r]
           st2 == IF useCache
                    THEN [st1 EXCEPT !.cache = evict(cacheSet(st.cache, r.key, r)),
                                     !.inserted = noteInserted(st.inserted, st.cache, r.key)]
                    ELSE st1
       IN storeResults(st2, b + 1, uncached, allBatchResults, useCache)

\* analyzeBatch(inputs) without a multi-visit input.  Chunk failAt (0 = none)
\* fails with errKind; out is what the network returns.
AnalyzeBatch(inputs, failAt, errKind, out) ==
  /\ initialized /\ session
  /\ lastRun = NoRun
  /\ (failAt = 0) => errKind = "other"
  /\ (failAt > 0) => out = 1
  /\ LET n == Len(inputs)
         hit == [i \in 1..n |-> cfgEnableCache /\ cacheGet(cache, inputs[i]) # <<>>]
         results0 == [i \in 1..n |-> IF hit[i] THEN cacheGet(cache, inputs[i])[1]
                                                ELSE NoResult]
         uncached == uncachedOf(inputs, cache, cfgEnableCache)
         actualBatchSize == Len(uncached)
         chunkSize == Min(actualBatchSize, maxInferenceBatch)
         chunks == IF actualBatchSize = 0 THEN <<>>
                   ELSE chunksFrom(0, actualBatchSize, chunkSize)
         failed == failAt > 0
         run == IF failed THEN SubSeq(chunks, 1, failAt) ELSE chunks
         allBatchResults == [b \in 1..actualBatchSize |->
                               [key |-> inputs[uncached[b]], out |-> out]]
         st == IF failed
                 THEN [results |-> <<>>, cache |-> cache, inserted |-> inserted]
                 ELSE storeResults([results |-> results0, cache |-> cache,
                                    inserted |-> inserted],
                                   1, uncached, allBatchResults, cfgEnableCache)
     IN /\ failAt <= Len(chunks)
        /\ cache' = st.cache
        /\ inserted' = st.inserted
        /\ lastRun' = [path |-> "batch", inputs |-> inputs, results |-> st.results,
                       ran |-> uncached, chunks |-> run,
                       feeds |-> [c \in 1..Len(run) |-> inputDataType],
                       errors |-> [c \in 1..Len(run) |->
                                     IF failed /\ c = failAt THEN errKind ELSE "none"],
                       outcome |-> IF failed THEN "rethrown" ELSE "returned",
                       tensors |->
                         [c \in 1..Len(run) |->
                            LET usingGpuBuffers == /\ useGpuInputs /\ gpuBuffers
                                                   /\ run[c].to - run[c].from = 1
                            IN inputTensors(usingGpuBuffers,
                                            ~usingGpuBuffers /\ ~(failed /\ c = failAt),
                                            run[c].to - run[c].from, widthOf(inputs[1]))],
                       size |-> widthOf(inputs[1])]
  /\ UNCHANGED <<cfgProviders, cfgEnableGraphCapture, cfgHasModel, session, initialized,
                 usedProviders, requestedProviders, didFallback, graphCaptureEnabled,
                 useGpuInputs, gpuBuffers, initPc, effProviders, usedProviderNames,
                 initTried, lastInit, lastAnalyze, cfgEnableCache, inputDataType,
                 maxInferenceBatch>>
  /\ UNCHANGED nonOnnxVars

\* The promise of the run settles: its caller takes the results or the error,
\* and the next request can be made (the requests of Part IV are successive).
RunSettled ==
  /\ lastRun # NoRun
  /\ lastRun' = NoRun
  /\ UNCHANGED <<cfgProviders, cfgEnableGraphCapture, cfgHasModel, session, initialized,
                 usedProviders, requestedProviders, didFallback, graphCaptureEnabled,
                 useGpuInputs, gpuBuffers, initPc, effProviders, usedProviderNames,
                 initTried, lastInit, lastAnalyze, cfgEnableCache, inputDataType,
                 maxInferenceBatch, cache, inserted>>
  /\ UNCHANGED nonOnnxVars

\* Part IV takes an engine whose first session creation succeeds (Part III
\* covers the others) and then analyses with it.
AnalysisNext ==
  \/ InitializeStart(TRUE, TRUE)
  \/ Create1Done(TRUE)
  \/ \E ok \in BOOLEAN : AllocateDone(ok)
  \/ \E path \in {"single", "leaf"}, k \in CacheKeys, err1 \in RunErrors,
        err2 \in RunErrors, out \in NetOutputs :
       EvaluateSingle(path, k, err1, err2, out)
  \/ \E inputs \in BatchInputs, failAt \in 0..MaxBatch, errKind \in {"fp16", "other"},
        out \in NetOutputs :
       AnalyzeBatch(inputs, failAt, errKind, out)
  \/ RunSettled

\* ------------------------------------------------------------------------
\* Part V: OnnxEngine, decoding of the policy and the ko filter
\* (src/unnamed/part_001, lines 876-939 and 1282-1396)
\*
\* A move string is modelled as <<column letter, row number>>, "PASS" as
\* <<"PASS", 0>>. A probability is the fraction num / den.
\* ------------------------------------------------------------------------
GridSizes == {2}         \* board.width: the boards of the model are 2 x 2
MaxSuggestions == 2      \* the top entries of the policy kept as suggestions (10 in the code)
MaxWeight == 1           \* largest numerator of a decoded probability
MaxStones == 1           \* stones on the board of an MCTS root

letters == <<"A", "B", "C", "D", "E", "F", "G", "H", "J", "K",
             "L", "M", "N", "O", "P", "Q", "R", "S", "T">>
PASS == <<"PASS", 0>>
NoVertex == <<"", 0>>    \* null
Signs == {1, -1}

\* letters.indexOf(c)
indexOf(c) == IF \E i \in 1..Len(letters) : letters[i] = c
                THEN (CHOOSE i \in 1..Len(letters) : letters[i] = c) - 1
                ELSE -1

\* processBatchResults: index of the policy -> move string
moveStr(idx, size) ==
  IF idx = size * size THEN PASS
  ELSE <<letters[(idx % size) + 1], size - (idx \div size)>>

\* _parseMoveStr: <<x, y>>, or <<>> for null
parseMoveStr(move, size) ==
  IF move = PASS THEN <<>>
  ELSE LET x == indexOf(move[1])
           y == size - move[2]
       IN IF x < 0 \/ y < 0 \/ y >= size THEN <<>> ELSE <<x, y>>

\* new GoBoard(signMap) has no ko; the ko of the options is restored when
\* its sign is not 0
NoKo == [sign |-> 0, vertex |-> <<-1, -1>>]
restoreKo(koInfo) == IF koInfo.sign # 0 THEN koInfo ELSE NoKo

\* a ko vertex written with the row counted from the top
getKoVertexRowFromTop(koInfo, pla, size) ==
  IF koInfo.sign # pla \/ koInfo.vertex[1] = -1 THEN NoVertex
  ELSE <<letters[koInfo.vertex[1] + 1], koInfo.vertex[2] + 1>>

\* _getKoVertex
getKoVertex(koInfo, pla, size) ==
  IF koInfo.sign # pla \/ koInfo.vertex[1] = -1 THEN NoVertex
  ELSE <<letters[koInfo.vertex[1] + 1], size - koInfo.vertex[2]>>

\* the top entries of the softmax, as suggestions
decode(policy, den, size) ==
  [i \in 1..Len(policy) |->
     [move |-> moveStr(policy[i].idx, size),
      probability |-> [num |-> policy[i].w, den |-> den]]]

\* filtered.reduce((sum, s) => sum + s.probability, 0), as a numerator over
\* the common denominator
RECURSIVE sumNum(_)
sumNum(suggestions) ==
  IF suggestions = <<>> THEN 0
  ELSE Head(suggestions).probability.num + sumNum(Tail(suggestions))

\* a filter that leaves the probabilities as they were
normaliseNever(filtered, total) == filtered

\* for (const s of filtered) s.probability /= total
normalise(filtered, total) ==
  [i \in 1..Len(filtered) |->
     [filtered[i] EXCEPT !.probability = [num |-> @.num, den |-> total]]]

\* _filterKoMoves
filterKoMoves(suggestions, koInfo, pla, size) ==
  LET koMove == getKoVertex(koInfo, pla, size)
  IN IF koMove = NoVertex THEN suggestions
     ELSE LET filtered == SelectSeq(suggestions, LAMBDA s : s.move # koMove)
              total == sumNum(filtered)
          IN IF total > 0 THEN normalise(filtered, total) ELSE filtered

\* a board on which every vertex reads as empty
occupiedNowhere(occupied, parsed, size) == FALSE

\* board.get(parsed) !== 0; a vertex outside the board gives undefined
occupiedAt(occupied, parsed, size) == parsed[1] >= size \/ parsed \in occupied

\* _expandNode: the children created, in the order of the suggestions
expandNode(eval, koInfo, occupied, pla, size) ==
  LET koVertex == getKoVertex(koInfo, pla, size)
      kept(s) == \/ s.move = PASS
                 \/ /\ ~(koVertex # NoVertex /\ s.move = koVertex)
                    /\ parseMoveStr(s.move, size) # <<>>
                    /\ ~occupiedAt(occupied, parseMoveStr(s.move, size), size)
  IN [i \in 1..Len(SelectSeq(eval, kept)) |->
        [move |-> SelectSeq(eval, kept)[i].move, N |-> 0, W |-> 0,
         P |-> SelectSeq(eval, kept)[i].probability]]

\* the suggestions of an MCTS result whose root children have no visits:
\* the children of the root with their priors
rootSuggestions(children) ==
  [i \in 1..Len(children) |-> [move |-> children[i].move, probability |-> children[i].P]]

Points(size) == {<<x, y>> : x \in 0..(size - 1), y \in 0..(size - 1)}
KoInfos(size) == {NoKo} \cup [sign : {-1, 0, 1}, vertex : Points(size) \cup {<<-1, -1>>}]

\* the top entries of a softmax: different indices, descending, the largest
\* positive
Policies(size) ==
  {p \in [1..MaxSuggestions -> [idx : 0..(size * size), w : 0..MaxWeight]] :
     /\ p[1].w > 0
     /\ \A i, j \in 1..MaxSuggestions : i < j => (p[i].idx # p[j].idx /\ p[i].w >= p[j].w)}

NoKoCase == [path |-> "none", size |-> 0, pla |-> 0, koInfo |-> NoKo, occupied |-> {},
             policy |-> <<>>, rest |-> 0, done |-> FALSE, result |-> <<>>]

\* the result of _evaluateSingle (single), of one slot of analyzeBatch
\* (batch) and the suggestions _runMCTS builds from the root (mcts)
Evaluate ==
  /\ koCase.path # "none" /\ ~koCase.done
  /\ LET c == koCase
         board == restoreKo(c.koInfo)
         den == sumNum(decode(c.policy, 1, c.size)) + c.rest
         eval == filterKoMoves(decode(c.policy, den, c.size), board, c.pla, c.size)
     IN koCase' = [c EXCEPT !.done = TRUE,
                            !.result = IF c.path = "mcts"
                                         THEN rootSuggestions(
                                                expandNode(eval, board, c.occupied, c.pla, c.size))
                                         ELSE eval]
  /\ UNCHANGED <<mcts, rw, libCall, overlap>>
  /\ UNCHANGED nonFnVars

KoIdle == koCase = NoKoCase
KoInit ==
  \E size \in GridSizes :
    /\ koCase \in [path : {"single", "batch", "mcts"}, size : {size}, pla : Signs,
                   koInfo : KoInfos(size),
                   occupied : {o \in SUBSET Points(size) : Cardinality(o) <= MaxStones},
                   policy : Policies(size), rest : 0..1, done : {FALSE}, result : {<<>>}]
    /\ koCase.path # "mcts" => koCase.occupied = {}
KoNext == Evaluate

\* ------------------------------------------------------------------------
\* Part VI: OnnxEngine._runMCTS (src/unnamed/part_001, lines 742-872)
\*
\* A node is named by the moves that lead to it from the root. The PUCT
\* choice of a child and the outcome of board.makeMove are taken from the
\* environment: any child can be the best one, any move can fail to apply.
\* ------------------------------------------------------------------------
MaxVisits == 3           \* largest numVisits of a search
TreeMoves == {"PASS", "A1"}
Root == <<>>
\* a value in [0, 1] or a sum of such values, as a reduced fraction
RECURSIVE gcd(_, _)
gcd(a, b) == IF b = 0 THEN a ELSE gcd(b, a % b)
frac(n, d) == [num |-> n \div gcd(n, d), den |-> d \div gcd(n, d)]
fracAdd(a, b) == frac(a.num * b.den + b.num * a.den, a.den * b.den)
fracLeq(a, b) == a.num * b.den <= b.num * a.den
Zero == frac(0, 1)
Half == frac(1, 2)
\* leafEval.winRate: Black's winrate of the value head
WinRates == {Zero, Half, frac(1, 1)}

\* { N: 0, W: 0, P: 1, children: null, expanded: false }; childrenNull says
\* that children is null, and children is then shown as the empty set
NewNode == [N |-> 0, W |-> Zero, expanded |-> FALSE, children |-> {}, childrenNull |-> TRUE]
NoVisit == [path |-> <<>>, kind |-> "none", evaluated |-> FALSE, value |-> Zero]
McIdle == [status |-> "idle", numVisits |-> 0, rootPasses |-> 0, v |-> 0,
           tree |-> <<>>, kinds |-> {}, visits |-> 0, lastVisit |-> NoVisit]

\* the sum of the values as the estimate
runningSum(node) == node.W

\* the prior of an unvisited node as the estimate
runningHalf(node) == Half

\* leaf.node.N > 0 ? leaf.node.W / leaf.node.N : 0.5
runningAverage(node) ==
  IF node.N > 0 THEN frac(node.W.num, node.W.den * node.N) ELSE Half

\* _expandNode: node.children = new Map(), a child per legal suggestion,
\* node.expanded = true
expandedNode(node, kids) ==
  [node EXCEPT !.expanded = TRUE, !.children = kids, !.childrenNull = FALSE]

prefix(path, k) == SubSeq(path, 1, k)

\* the nodes whose N a visit ending at path increments: the leaf alone
backupLeafOnly(path) == {path}

\* for (const { node } of path): the root and every node selected after it
backupNodes(path) == {prefix(path, k) : k \in 0..Len(path)}

\* the passes that end the history of the node
RECURSIVE trailingPasses(_, _)
trailingPasses(path, rootPasses) ==
  IF path = <<>> THEN rootPasses
  ELSE IF path[Len(path)] = "PASS"
         THEN 1 + trailingPasses(prefix(path, Len(path) - 1), rootPasses)
         ELSE 0

\* len >= 2 && hist[len - 1].x < 0 && hist[len - 2].x < 0
terminal(path, rootPasses) == trailingPasses(path, rootPasses) >= 2

\* the selection loop goes on below the node
canDescend(tree, path, rootPasses) ==
  /\ tree[path].expanded /\ ~tree[path].childrenNull /\ tree[path].children # {}
  /\ ~terminal(path, rootPasses)

\* _runMCTS is entered: analyzePosition calls it when numVisits > 1
RunMCTS(numVisits, rootPasses) ==
  /\ mcts.status = "idle"
  /\ numVisits > 1
  /\ mcts' = [status |-> "running", numVisits |-> numVisits, rootPasses |-> rootPasses,
              v |-> 0, tree |-> [n \in {Root} |-> NewNode], kinds |-> {}, visits |-> 0,
              lastVisit |-> NoVisit]
  /\ UNCHANGED <<koCase, rw, libCall, overlap>>
  /\ UNCHANGED nonFnVars

\* One iteration of the loop: the selection ends at path; truncated says
\* that it ended because the move of the best child, which is not a pass,
\* could not be parsed or applied; evalOk, winRate and kids are the outcome of
\* the leaf evaluation and the children _expandNode creates. The last
\* iteration is followed by the result.
Visit(path, truncated, evalOk, winRate, kids) ==
  /\ mcts.status = "running"
  /\ path \in DOMAIN mcts.tree
  /\ \A k \in 0..(Len(path) - 1) : ~terminal(prefix(path, k), mcts.rootPasses)
  /\ truncated <=> canDescend(mcts.tree, path, mcts.rootPasses)
  /\ truncated => mcts.tree[path].children # {"PASS"}
  /\ mcts.tree[path].expanded => (evalOk /\ kids = {} /\ winRate = Zero)
  /\ ~evalOk => (kids = {} /\ winRate = Zero)
  /\ LET t == mcts.tree
         leaf == t[path]
         kind == IF ~leaf.expanded THEN "expanded"
                 ELSE IF truncated THEN "truncated"
                 ELSE IF leaf.children = {} THEN "childless" ELSE "terminal"
         expanded == IF leaf.expanded THEN t
                     ELSE [n \in DOMAIN t \cup {Append(path, mv) : mv \in kids} |->
                             IF n = path THEN expandedNode(leaf, kids)
                             ELSE IF n \in DOMAIN t THEN t[n] ELSE NewNode]
         value == IF ~leaf.expanded THEN winRate ELSE runningAverage(leaf)
         backed == [n \in DOMAIN expanded |->
                      IF n \in backupNodes(path)
                        THEN [expanded[n] EXCEPT !.N = @ + 1, !.W = fracAdd(@, value)]
                        ELSE expanded[n]]
         last == mcts.v + 1 = mcts.numVisits
     IN IF ~evalOk
          THEN mcts' = [mcts EXCEPT !.status = "rejected"]
          ELSE mcts' = [mcts EXCEPT !.tree = backed, !.v = @ + 1,
                                    !.kinds = @ \cup {kind},
                                    !.lastVisit = [path |-> path, kind |-> kind,
                                                   evaluated |-> ~leaf.expanded,
                                                   value |-> value],
                                    !.status = IF last THEN "returned" ELSE "running",
                                    !.visits = IF last THEN backed[Root].N ELSE 0]
  /\ UNCHANGED <<koCase, rw, libCall, overlap>>
  /\ UNCHANGED nonFnVars

MctsIdle == mcts = McIdle
MctsNext ==
  \/ \E numVisits \in 1..MaxVisits, rootPasses \in 0..2 : RunMCTS(numVisits, rootPasses)
  \/ \E path \in DOMAIN mcts.tree, truncated \in BOOLEAN, evalOk \in BOOLEAN,
        winRate \in WinRates, kids \in SUBSET TreeMoves :
       Visit(path, truncated, evalOk, winRate, kids)

\* ------------------------------------------------------------------------
\* Part VII: the model rewriter, convertModelForWebGPU
\* (src/packages/ai-engine/src/webgpu-converter.ts, lines 320-504) and
\* convertModelForWebNN (src/unnamed/part_002, lines 248-421), and its use
\* by the provider (src/packages/ui/src/contexts/AIEngineContext.tsx,
\* lines 181-215)
\*
\* A buffer is what ModelProto.decode makes of it: a model with a graph, a
\* model without a graph, or bytes decode throws on. A name is
\* <<prefix, counter, suffix>>; a dimension has a dimParam ("" when it has
\* none) and a dimValue (0 when it has none).
\* ------------------------------------------------------------------------
MaxNodes == 2            \* nodes of the graph given to the rewriter
Profiles == {"webgpu", "webnn"}
BatchSizeOptions == {1, 2}   \* options.batchSize
BoardSizeOption == 3         \* options.boardSize
ConcreteDim == 4             \* a dimValue the model already has
OpTypes == {"Softplus", "LogSoftmax", "Conv"}

Name(n) == <<n, 0, "">>
Dims == {[param |-> "batch_size", value |-> 0], [param |-> "height", value |-> 0],
         [param |-> "N", value |-> 0], [param |-> "", value |-> 0],
         [param |-> "", value |-> ConcreteDim]}
DimLists == [1..2 -> Dims]
ValueInfo(n, dims) == [name |-> n, dims |-> dims]

\* the graphs given to the rewriter: one input x of two dimensions, one
\* output y, at most one value-info entry h of one dimension, and nodes that
\* all read h
Graphs ==
  [input : {<<ValueInfo(Name("x"), d)>> : d \in DimLists},
   output : {<<ValueInfo(Name("y"), <<d, [param |-> "", value |-> ConcreteDim]>>)>> :
               d \in {[param |-> "batch_size", value |-> 0],
                      [param |-> "", value |-> ConcreteDim]}},
   valueInfo : {<<>>} \cup {<<ValueInfo(Name("h"), <<d>>)>> : d \in Dims},
   node : UNION {{[i \in 1..n |-> [opType |-> ops[i], input |-> Name("h"),
                                   output |-> <<"o", i, "">>]] : ops \in [1..n -> OpTypes]} :
                   n \in 0..MaxNodes},
   initializer : {<<>>}]

Garbage == [kind |-> "garbage"]
NoGraph == [kind |-> "nograph"]
encode(graph) == [kind |-> "model", graph |-> graph]
Buffers == {Garbage, NoGraph} \cup {encode(g) : g \in Graphs}

\* a dimension made static that keeps its dimParam
staticDimKeepsParam(dim, v) == [dim EXCEPT !.value = v]

\* dim.dimValue = v; delete dim.dimParam
staticDim(dim, v) == [param |-> "", value |-> v]

\* webgpu-converter.ts makeStatic: the first dimension of each entry
needsBatch(dim) == dim.param # "" \/ dim.value <= 0
makeStaticWebGPU(valueInfos, batchSize) ==
  [i \in 1..Len(valueInfos) |->
     IF valueInfos[i].dims # <<>> /\ needsBatch(valueInfos[i].dims[1])
       THEN [valueInfos[i] EXCEPT !.dims[1] = staticDim(@, batchSize)]
       ELSE valueInfos[i]]

\* part_002 makeStatic: every dimension of each entry
STATIC_DIMS(batchSize, boardSide) ==
  [n \in {"batch_size", "height", "width"} |-> IF n = "batch_size" THEN batchSize ELSE boardSide]
staticWebNN(dim, batchSize, boardSide) ==
  IF dim.param \in DOMAIN STATIC_DIMS(batchSize, boardSide)
    THEN staticDim(dim, STATIC_DIMS(batchSize, boardSide)[dim.param])
    ELSE IF dim.param = "" /\ dim.value <= 0 THEN staticDim(dim, 1) ELSE dim
makeStaticWebNN(valueInfos, batchSize, boardSide) ==
  [i \in 1..Len(valueInfos) |->
     [valueInfos[i] EXCEPT !.dims = [k \in 1..Len(@) |-> staticWebNN(@[k], batchSize, boardSide)]]]

makeStatic(profile, valueInfos, opts) ==
  IF profile = "webgpu" THEN makeStaticWebGPU(valueInfos, opts.batchSize)
  ELSE makeStaticWebNN(valueInfos, opts.batchSize, opts.boardSize)

\* changes.push for every dimension makeStatic rewrote
dimChanges(before, after) ==
  LET changed(i) == {k \in 1..Len(before[i].dims) : before[i].dims[k] # after[i].dims[k]}
      RECURSIVE count(_)
      count(i) == IF i = 0 THEN 0 ELSE Cardinality(changed(i)) + count(i - 1)
  IN count(Len(before))

spPrefix(profile) == IF profile = "webgpu" THEN "__sp" ELSE "__wnsp"
lsPrefix(profile) == IF profile = "webgpu" THEN "__ls" ELSE "__wnls"
oneName(profile) == Name(IF profile = "webgpu" THEN "__webgpu_const_one" ELSE "__webnn_const_one")

\* Softplus(x) written as Log(1 + Exp(x)): three nodes
softplusNaive(prefixName, k, x, y, one) ==
  LET p(suffix) == <<prefixName, k, suffix>>
  IN << [opType |-> "Exp", input |-> x, output |-> p("exp")],
        [opType |-> "Add", input |-> p("exp"), output |-> p("add1")],
        [opType |-> "Log", input |-> p("add1"), output |-> y] >>

\* Softplus(x) = Relu(x) + Log(1 + Exp(-Abs(x))): seven nodes
softplusNodes(prefixName, k, x, y, one) ==
  LET p(suffix) == <<prefixName, k, suffix>>
  IN << [opType |-> "Abs", input |-> x, output |-> p("abs")],
        [opType |-> "Neg", input |-> p("abs"), output |-> p("neg")],
        [opType |-> "Exp", input |-> p("neg"), output |-> p("exp")],
        [opType |-> "Add", input |-> p("exp"), output |-> p("add1")],
        [opType |-> "Log", input |-> p("add1"), output |-> p("log")],
        [opType |-> "Relu", input |-> x, output |-> p("relu")],
        [opType |-> "Add", input |-> p("relu"), output |-> y] >>
softplusNames(prefixName, k) ==
  [i \in 1..6 |-> <<prefixName, k, <<"abs", "neg", "exp", "add1", "log", "relu">>[i]>>]
logSoftmaxNodes(prefixName, k, x, y) ==
  << [opType |-> "Softmax", input |-> x, output |-> <<prefixName, k, "sm">>],
     [opType |-> "Log", input |-> <<prefixName, k, "sm">>, output |-> y] >>

\* a look-up among the graph inputs only
srcViAmongInputs(graph, x) ==
  LET hits == {i \in 1..Len(graph.input) : graph.input[i].name = x}
  IN IF hits = {} THEN <<>> ELSE <<graph.input[CHOOSE i \in hits : TRUE]>>

\* [...graph.valueInfo, ...graph.input].find(vi => vi.name === x): <<vi>>,
\* or <<>> when there is none
srcVi(graph, x) ==
  LET all == graph.valueInfo \o graph.input
      hits == {i \in 1..Len(all) : all[i].name = x}
  IN IF hits = {} THEN <<>> ELSE <<all[CHOOSE i \in hits : \A j \in hits : i <= j]>>

\* the loop over graph.node
RECURSIVE replaceOps(_, _, _, _)
replaceOps(profile, graph, i, acc) ==
  IF i > Len(graph.node) THEN acc
  ELSE LET node == graph.node[i]
           src == srcVi(graph, node.input)
           typed(names) == IF src = <<>> THEN <<>>
                           ELSE [k \in 1..Len(names) |-> ValueInfo(names[k], src[1].dims)]
       IN replaceOps(profile, graph, i + 1,
            IF node.opType = "Softplus"
              THEN [acc EXCEPT
                      !.newNodes = @ \o softplusNodes(spPrefix(profile), acc.softplusCount,
                                                      node.input, node.output, oneName(profile)),
                      !.newValueInfos = @ \o typed(softplusNames(spPrefix(profile),
                                                                acc.softplusCount)),
                      !.softplusCount = @ + 1]
            ELSE IF node.opType = "LogSoftmax"
              THEN [acc EXCEPT
                      !.newNodes = @ \o logSoftmaxNodes(lsPrefix(profile), acc.logsoftmaxCount,
                                                        node.input, node.output),
                      !.newValueInfos = @ \o typed(<< <<lsPrefix(profile),
                                                        acc.logsoftmaxCount, "sm">> >>),
                      !.logsoftmaxCount = @ + 1]
            ELSE [acc EXCEPT !.newNodes = Append(@, node)])

Threw == [status |-> "threw", buffer |-> Garbage, wasConverted |-> FALSE, changes |-> 0]
NotRun == [status |-> "none", buffer |-> Garbage, wasConverted |-> FALSE, changes |-> 0]

\* convertModelForWebGPU / convertModelForWebNN
convert(profile, buffer, opts) ==
  IF buffer.kind # "model" THEN Threw
  ELSE LET graph == buffer.graph
           static == [graph EXCEPT !.input = makeStatic(profile, @, opts),
                                   !.output = makeStatic(profile, @, opts),
                                   !.valueInfo = makeStatic(profile, @, opts)]
           ops == replaceOps(profile, static, 1,
                             [newNodes |-> <<>>, newValueInfos |-> <<>>,
                              softplusCount |-> 0, logsoftmaxCount |-> 0])
           changes == dimChanges(graph.input, static.input)
                        + dimChanges(graph.output, static.output)
                        + dimChanges(graph.valueInfo, static.valueInfo)
                        + (IF ops.softplusCount > 0 THEN 1 ELSE 0)
                        + (IF ops.logsoftmaxCount > 0 THEN 1 ELSE 0)
           out == [static EXCEPT
                     !.initializer = IF ops.softplusCount > 0
                                       THEN Append(@, oneName(profile)) ELSE @,
                     !.node = ops.newNodes,
                     !.valueInfo = @ \o ops.newValueInfos]
       IN [status |-> "returned", buffer |-> encode(out),
           wasConverted |-> changes > 0, changes |-> changes]

Options == [batchSize : BatchSizeOptions, boardSize : {BoardSizeOption}]
RwIdle == rw = [profile |-> "none", bytes |-> Garbage, runs |-> <<>>,
                auto |-> [done |-> FALSE, buffer |-> Garbage, converted |-> FALSE]]
RwInit ==
  rw \in [profile : Profiles, bytes : Buffers, runs : {<<>>},
          auto : {[done |-> FALSE, buffer |-> Garbage, converted |-> FALSE]}]

\* The rewriter is called: on the bytes, then on what it returned.
Convert(opts) ==
  /\ rw.profile # "none" /\ ~rw.auto.done
  /\ Len(rw.runs) < 2
  /\ rw.runs # <<>> => rw.runs[1].status = "returned"
  /\ rw' = [rw EXCEPT !.runs = Append(@, convert(rw.profile,
                                                 IF @ = <<>> THEN rw.bytes ELSE @[1].buffer,
                                                 opts))]
  /\ UNCHANGED <<koCase, mcts, libCall, overlap>>
  /\ UNCHANGED nonFnVars

\* initializeEngine of the provider converts the model it loaded: it keeps
\* the converted buffer, or the original one when nothing was converted or
\* the rewriter threw.
AutoConvert(opts) ==
  /\ rw.profile # "none" /\ ~rw.auto.done /\ rw.runs = <<>>
  /\ LET res == convert(rw.profile, rw.bytes, opts)
         converted == res.status = "returned" /\ res.wasConverted
     IN rw' = [rw EXCEPT !.auto = [done |-> TRUE,
                                   buffer |-> IF converted THEN res.buffer ELSE rw.bytes,
                                   converted |-> converted]]
  /\ UNCHANGED <<koCase, mcts, libCall, overlap>>
  /\ UNCHANGED nonFnVars

RwNext ==
  \/ \E opts \in Options : Convert(opts)
  \/ \E opts \in Options : AutoConvert(opts)


\* ------------------------------------------------------------------------
\* Part VIII  board-recognition and performance-report functions
\* ------------------------------------------------------------------------
\* Each function is called once on arguments of its own; libCall keeps the
\* arguments and the value returned.
NoCall == [fn |-> "none"]
LibIdle == libCall = NoCall

absv(x) == IF x < 0 THEN 0 - x ELSE x

RECURSIVE sumSeq(_)
sumSeq(values) ==
  IF values = <<>> THEN 0 ELSE values[1] + sumSeq(Tail(values))

ascending(values) == SortSeq(values, LAMBDA a, b : a < b)

\* the arithmetic mean; the samples below are multiples of 24, so that the
\* mean of up to four of them and the midpoint of two means are integers
mean(values) == sumSeq(values) \div Len(values)

\* ---- classifyWithHints ------------------------------------------------
maxIter == 20

\* the loop of kmeans3 from iteration 'iter' on, c = <<c0, c1, c2>>
RECURSIVE kmeansLoop(_, _, _)
kmeansLoop(values, c, iter) ==
  IF iter >= maxIter THEN c
  ELSE LET cluster(v) == IF absv(v - c[1]) <= absv(v - c[2]) /\ absv(v - c[1]) <= absv(v - c[3])
                           THEN 1
                         ELSE IF absv(v - c[2]) <= absv(v - c[3]) THEN 2 ELSE 3
           members(k) == SelectSeq(values, LAMBDA v : cluster(v) = k)
           newC == [k \in 1..3 |-> IF members(k) # <<>> THEN mean(members(k)) ELSE c[k]]
       IN IF 2 * (absv(newC[1] - c[1]) + absv(newC[2] - c[2]) + absv(newC[3] - c[3])) < 1
            THEN c
            ELSE kmeansLoop(values, newC, iter + 1)

kmeans3(values) ==
  IF Len(values) < 3 THEN <<0, 0, 0>>
  ELSE LET sorted == ascending(values)
           n == Len(sorted)
       IN ascending(kmeansLoop(values,
                               << sorted[(n \div 10) + 1], sorted[(n \div 2) + 1],
                                  sorted[((9 * n) \div 10) + 1] >>, 0))

NoHint == [color |-> "none"]

\* a classifier whose hint map is never hit
hintMapMiss(hintList, col, row) == NoHint

\* hintMap.get(`${col},${row}`): a later hint of the list replaces an earlier
\* one with the same key
hintMapGet(hintList, col, row) ==
  LET at == {i \in 1..Len(hintList) : hintList[i].x = col /\ hintList[i].y = row}
  IN IF at = {} THEN NoHint ELSE hintList[CHOOSE i \in at : \A j \in at : j <= i]

\* relative and variances are what sampleGrid returned, indexed from 1 in
\* row-major order
classifyWithHints(relative, variances, side, hintList) ==
  LET valsOf(color) ==
        LET hs == SelectSeq(hintList, LAMBDA h : h.color = color)
        IN [i \in 1..Len(hs) |-> relative[hs[i].y * side + hs[i].x + 1]]
      km == kmeans3(relative)
      blackC == IF valsOf("black") # <<>> THEN mean(valsOf("black")) ELSE km[1]
      boardC == IF valsOf("empty") # <<>> THEN mean(valsOf("empty")) ELSE km[2]
      whiteC == IF valsOf("white") # <<>> THEN mean(valsOf("white")) ELSE km[3]
      blackBoundary == (blackC + boardC) \div 2
      whiteBoundary == (boardC + whiteC) \div 2
      sortedVar == ascending(variances)
      medianVar == sortedVar[(Len(sortedVar) \div 2) + 1]
      totalSpread == whiteC - blackC
      hasBlack == totalSpread > 2 /\ 10 * (boardC - blackC) > totalSpread
      hasWhite == totalSpread > 2 /\ 10 * (whiteC - boardC) > totalSpread
      cell(idx) ==
        LET col == idx % side
            row == idx \div side
            hint == hintMapGet(hintList, col, row)
            r == relative[idx + 1]
            highVar == variances[idx + 1] > medianVar * 3
        IN [x |-> col, y |-> row,
            color |-> IF hint # NoHint THEN hint.color
                      ELSE IF hasBlack /\ r < blackBoundary
                        THEN IF ~highVar \/ 2 * r < blackC THEN "black" ELSE "empty"
                      ELSE IF hasWhite /\ r > whiteBoundary
                        THEN IF ~highVar \/ 2 * r > whiteC THEN "white" ELSE "empty"
                      ELSE "empty"]
  IN SelectSeq([i \in 1..(side * side) |-> cell(i - 1)], LAMBDA st : st.color # "empty")

\* ---- buildSGF -----------------------------------------------------------
ALPHA == <<"a", "b", "c", "d">>

coord(col, row) == <<ALPHA[col + 1], ALPHA[row + 1]>>

\* the text as the sequence of its properties, each an identifier and its
\* bracketed values
buildSGF(side, stones) ==
  LET black == SelectSeq(stones, LAMBDA st : st.color = "black")
      white == SelectSeq(stones, LAMBDA st : st.color = "white")
      prop(id, list) == <<[id |-> id, values |-> [i \in 1..Len(list) |-> coord(list[i].x, list[i].y)]]>>
  IN << [id |-> "GM", values |-> <<1>>], [id |-> "FF", values |-> <<4>>],
        [id |-> "SZ", values |-> <<side>>],
        [id |-> "AP", values |-> <<"Kaya Board Recognition">>] >>
     \o (IF Len(black) > 0 THEN prop("AB", black) ELSE <<>>)
     \o (IF Len(white) > 0 THEN prop("AW", white) ELSE <<>>)

\* ---- reclassifyWithHints ------------------------------------------------
SampleSides == {2}
RelativeValues == {0 - 48, 0, 48}
MaxHintList == 2

\* relative brightness of each intersection; the variance is that of flat
\* patches around one textured intersection
Samples ==
  UNION {[side : {s}, relative : [1..(s * s) -> RelativeValues],
          variances : {[i \in 1..(s * s) |-> IF i = 1 THEN 9 ELSE 1]}] :
           s \in SampleSides}

HintsOn(side) == [x : 0..(side - 1), y : 0..(side - 1), color : {"black", "white", "empty"}]

HintLists(side) == UNION {[1..n -> HintsOn(side)] : n \in 0..MaxHintList}

\* the sample is that of the warped image: warpPerspective, toGrayscale and
\* sampleGrid are not modelled
ReclassifyWithHints ==
  /\ LibIdle
  /\ \E sample \in Samples : \E hintList \in HintLists(sample.side) :
       libCall' = LET stones == classifyWithHints(sample.relative, sample.variances,
                                                  sample.side, hintList)
                  IN [fn |-> "reclassifyWithHints", sample |-> sample, hints |-> hintList,
                      stones |-> stones, sgf |-> buildSGF(sample.side, stones)]
  /\ UNCHANGED <<koCase, mcts, rw, overlap>>
  /\ UNCHANGED nonFnVars


\* buildSGF as it is exported, on any stone list
StoneLists(side) ==
  UNION {[1..n -> [x : 0..(side - 1), y : 0..(side - 1), color : {"black", "white"}]] :
           n \in 0..MaxHintList}

BuildSGF ==
  /\ LibIdle
  /\ \E side \in SampleSides : \E stones \in StoneLists(side) :
       libCall' = [fn |-> "buildSGF", boardSize |-> side, stones |-> stones,
                   sgf |-> buildSGF(side, stones)]
  /\ UNCHANGED <<koCase, mcts, rw, overlap>>
  /\ UNCHANGED nonFnVars

\* ---- orderCorners -------------------------------------------------------
MaxX == 4
MaxY == 2

cross(u, v) == u[1] * v[2] - u[2] * v[1]

\* Math.atan2(a[1] - cy, a[0] - cx) < Math.atan2(b[1] - cy, b[0] - cx), for
\* u = a - c and v = b - c: the angle lies in (-pi, 0) when the y component is
\* negative, is 0 on the positive x axis, lies in (0, pi) when the y component
\* is positive and is pi on the negative x axis; inside one half-plane the
\* angle grows with the cross product
atan2Less(u, v) ==
  LET part(w) == IF w[2] < 0 THEN 1
                 ELSE IF w[2] = 0 /\ w[1] >= 0 THEN 2
                 ELSE IF w[2] > 0 THEN 3 ELSE 4
  IN \/ part(u) < part(v)
     \/ part(u) = part(v) /\ part(u) \in {1, 3} /\ cross(u, v) > 0

\* coordinates relative to the centroid, times the number of points
fromCentroid(pts, p) ==
  << Len(pts) * p[1] - sumSeq([i \in 1..Len(pts) |-> pts[i][1]]),
     Len(pts) * p[2] - sumSeq([i \in 1..Len(pts) |-> pts[i][2]]) >>

orderCorners(pts) ==
  LET sorted == SortSeq(pts, LAMBDA a, b : atan2Less(fromCentroid(pts, a), fromCentroid(pts, b)))
      sumOf(i) == sorted[i][1] + sorted[i][2]
      \* the first index of the smallest x + y
      tlIdx == CHOOSE i \in 1..Len(sorted) :
                 /\ \A j \in 1..Len(sorted) : sumOf(i) <= sumOf(j)
                 /\ \A j \in 1..(i - 1) : sumOf(j) > sumOf(i)
  IN [i \in 1..4 |-> sorted[((tlIdx - 1 + i - 1) % 4) + 1]]

GridPoints == (0..MaxX) \X (0..MaxY)

\* four distinct points, listed by x and then y
PointLists ==
  {pts \in [1..4 -> GridPoints] :
     \A i \in 1..3 : \/ pts[i][1] < pts[i + 1][1]
                     \/ pts[i][1] = pts[i + 1][1] /\ pts[i][2] < pts[i + 1][2]}

OrderCorners ==
  /\ LibIdle
  /\ \E pts \in PointLists : libCall' = [fn |-> "orderCorners", pts |-> pts, corners |-> orderCorners(pts)]
  /\ UNCHANGED <<koCase, mcts, rw, overlap>>
  /\ UNCHANGED nonFnVars

\* ---- generateMoveStats --------------------------------------------------
\* score leads and points are in tenths of a point, probabilities in percent
DEFAULT_POINTS_LOST_THRESHOLDS == [aiMove |-> 2, good |-> 10, inaccuracy |-> 20, mistake |-> 50]

classifyMove(pointsLost, thresholds) ==
  IF pointsLost <= thresholds.aiMove THEN "aiMove"
  ELSE IF pointsLost <= thresholds.good THEN "good"
  ELSE IF pointsLost <= thresholds.inaccuracy THEN "inaccuracy"
  ELSE IF pointsLost <= thresholds.mistake THEN "mistake"
  ELSE "blunder"

calculatePointsLost(prevScoreLead, currScoreLead, player) ==
  LET lost == IF player = "B" THEN prevScoreLead - currScoreLead
              ELSE currScoreLead - prevScoreLead
  IN IF lost > 0 THEN lost ELSE 0

findMoveRank(move, suggestions) ==
  LET at == {i \in 1..Len(suggestions) : suggestions[i].move = move}
  IN IF at = {} THEN 0 ELSE CHOOSE i \in at : \A j \in at : i <= j

findMoveProbability(move, suggestions) ==
  IF findMoveRank(move, suggestions) = 0 THEN 0
  ELSE suggestions[findMoveRank(move, suggestions)].probability

AbsentAnalysis == [scoreLead |-> 0, moveSuggestions |-> <<>>, present |-> FALSE]
NoStats == [category |-> "null"]

generateMoveStats(position, thresholds) ==
  IF ~position.analysisBeforeMove.present THEN NoStats
  ELSE LET scoreLeadBefore == position.analysisBeforeMove.scoreLead
           scoreLeadAfter == IF position.analysisAfterMove.present
                               THEN position.analysisAfterMove.scoreLead
                               ELSE scoreLeadBefore
           pointsLost == calculatePointsLost(scoreLeadBefore, scoreLeadAfter, position.player)
           suggestions == position.analysisBeforeMove.moveSuggestions
       IN [pointsLost |-> pointsLost,
           moveRank |-> findMoveRank(position.move, suggestions),
           moveProbability |-> findMoveProbability(position.move, suggestions),
           topMoveProbability |-> IF suggestions # <<>> THEN suggestions[1].probability ELSE 0,
           wasTopMove |-> findMoveRank(position.move, suggestions) = 1,
           category |-> classifyMove(pointsLost, thresholds)]

ScoreLeads == {0 - 60, 0 - 15, 0, 30}
SuggestionLists == {<<>>, <<[move |-> "A1", probability |-> 60]>>,
                    <<[move |-> "A1", probability |-> 60], [move |-> "B1", probability |-> 40]>>,
                    <<[move |-> "A1", probability |-> 90], [move |-> "B1", probability |-> 1]>>}
Analyses ==
  {AbsentAnalysis} \cup [scoreLead : ScoreLeads, moveSuggestions : SuggestionLists, present : {TRUE}]
Positions ==
  [player : {"B", "W"}, move : {"A1", "B1", "C1"}, analysisBeforeMove : Analyses,
   analysisAfterMove : {AbsentAnalysis} \cup [scoreLead : ScoreLeads, moveSuggestions : {<<>>},
                                          present : {TRUE}]]

GenerateMoveStats ==
  /\ LibIdle
  /\ \E position \in Positions :
       libCall' = [fn |-> "generateMoveStats", position |-> position,
                   stats |-> generateMoveStats(position, DEFAULT_POINTS_LOST_THRESHOLDS)]
  /\ UNCHANGED <<koCase, mcts, rw, overlap>>
  /\ UNCHANGED nonFnVars

\* OnnxEngine: the side to move of a single-visit request, as analyzePosition
\* and as analyzeBatch determine it.  nextToPlay is "B", "W" or "" (omitted).
nextPlaOfPosition(nextToPlay, blackStones, whiteStones) ==
  IF nextToPlay # "" THEN (IF nextToPlay = "W" THEN -1 ELSE 1)
  ELSE IF blackStones = whiteStones THEN 1 ELSE -1
nextPlaOfBatch(nextToPlay) == IF nextToPlay = "W" THEN -1 ELSE 1

\* processBatchResults for one position: the network's answer for the side
\* to move (its win rate in percent and its policy) put in Black's frame
processResults(net, pla) ==
  [currentTurn |-> IF pla = 1 THEN "B" ELSE "W",
   winRate |-> IF pla = 1 THEN net[pla].winrate ELSE 100 - net[pla].winrate,
   moveSuggestions |-> net[pla].policy]

\* what the network answers for one position with either side to move
NetAnswers == [{1, -1} -> [winrate : {25, 75}, policy : {"A1", "B2"}]]

\* One position and its options analysed both ways, the cache disabled.
AnalyzeBothWays ==
  /\ LibIdle
  /\ \E nextToPlay \in {"B", "W", ""}, blackStones \in 0..MaxStones,
        whiteStones \in 0..MaxStones, net \in NetAnswers :
       libCall' = [fn |-> "analyze", nextToPlay |-> nextToPlay,
                   blackStones |-> blackStones, whiteStones |-> whiteStones,
                   single |-> processResults(net, nextPlaOfPosition(nextToPlay, blackStones,
                                                                    whiteStones)),
                   batch |-> processResults(net, nextPlaOfBatch(nextToPlay))]
  /\ UNCHANGED <<koCase, mcts, rw, overlap>>
  /\ UNCHANGED nonFnVars

\* corners.ts estimateGridInWarped: the grid inset by BOARD_INSET = 0.06 of
\* the side of the warped image
estimateGridInWarped(size) ==
  LET margin == (size * 6) \div 100
  IN << <<margin, margin>>, <<size - margin, margin>>,
        <<size - margin, size - margin>>, <<margin, size - margin>> >>

\* sampleGrid: the corners of the lattice of sampled intersections; without
\* gridCorners (grid = <<>>) the lattice spans the image, from 0 to width - 1
sampleGridCorners(width, grid) ==
  IF grid # <<>> THEN grid
  ELSE << <<0, 0>>, <<width - 1, 0>>, <<width - 1, width - 1>>, <<0, width - 1>> >>

\* index.ts recognizeBoard / reclassifyWithCorners / reclassifyWithHints: the
\* grid given to the classifier and the estimatedGridCorners of the result
\* (<<>> is undefined)
gridOfPipeline(entry, cornersDetected, grid, outputSize) ==
  IF entry = "recognizeBoard"
    THEN LET estimatedGrid == IF cornersDetected THEN estimateGridInWarped(outputSize)
                                                 ELSE <<>>
             effectiveGridCorners == IF grid # <<>> THEN grid ELSE estimatedGrid
         IN [used |-> sampleGridCorners(outputSize, effectiveGridCorners),
             estimatedGridCorners |-> estimatedGrid]
    ELSE [used |-> sampleGridCorners(outputSize, grid),
          estimatedGridCorners |-> estimateGridInWarped(outputSize)]

OutputSizes == {100, 800}    \* options.outputSize (800 by default)
SuppliedGrids == {<<>>, << <<10, 10>>, <<90, 10>>, <<90, 90>>, <<10, 90>> >>}
PipelineEntries == {"recognizeBoard", "reclassifyWithCorners", "reclassifyWithHints"}

\* One of the three pipelines is run on an image.
RunPipeline ==
  /\ LibIdle
  /\ \E entry \in PipelineEntries, cornersDetected \in BOOLEAN,
        gc \in SuppliedGrids, outputSize \in OutputSizes :
       /\ entry # "recognizeBoard" => cornersDetected
       /\ libCall' = [fn |-> "pipeline", entry |-> entry, gridCorners |-> gc,
                      outputSize |-> outputSize, cornersDetected |-> cornersDetected,
                      grid |-> gridOfPipeline(entry, cornersDetected, gc, outputSize)]
  /\ UNCHANGED <<koCase, mcts, rw, overlap>>
  /\ UNCHANGED nonFnVars

\* OnnxEngine.featurizeToBuffer (src/unnamed/part_001, lines 1181-1280): the
\* indices of bin_input and of global_input it assigns.  A board is a
\* function from the points <<x, y>> to 1, -1 or 0; the buffers have room for
\* slots batch items, and an assignment to an index a typed array does not
\* have is dropped.
boardPoints(size) == (0..(size - 1)) \X (0..(size - 1))
adjacent(p, q) == absv(p[1] - q[1]) + absv(p[2] - q[2]) = 1

\* board.getChain(p)
getChain(board, p) ==
  LET RECURSIVE grow(_)
      grow(S) ==
        LET more == S \cup {q \in DOMAIN board :
                              board[q] = board[p] /\ \E r \in S : adjacent(q, r)}
        IN IF more = S THEN S ELSE grow(more)
  IN grow({p})

\* libertyCount[p]: the liberties of the group of p, clamped to 4
libertyCount(board, p) ==
  Min(Cardinality({q \in DOMAIN board :
                     board[q] = 0 /\ \E r \in getChain(board, p) : adjacent(q, r)}), 4)

featurizeToBuffer(board, pla, history, koInfo, batchIndex, size, slots) ==
  LET numPlanes == 22
      opp == IF pla = 1 THEN -1 ELSE 1
      batchOffset == batchIndex * numPlanes * size * size
      set(c, h, w) == batchOffset + c * size * size + h * size + w
      onBoard(m) == m[1] >= 0 /\ m[1] < size /\ m[2] >= 0 /\ m[2] < size
      len == Len(history)
      stonePlanes ==
        UNION {{set(0, p[2], p[1])}
                 \cup (IF board[p] = pla THEN {set(1, p[2], p[1])}
                       ELSE IF board[p] = opp THEN {set(2, p[2], p[1])} ELSE {})
                 \cup (IF board[p] # 0 /\ libertyCount(board, p) \in 1..3
                         THEN {set(2 + libertyCount(board, p), p[2], p[1])} ELSE {}) :
               p \in boardPoints(size)}
      ko == IF koInfo.sign = pla /\ koInfo.vertex[1] # -1
              THEN {set(6, koInfo.vertex[2], koInfo.vertex[1])} ELSE {}
      setHistory(moveIdx, featureIdx) ==
        IF len >= moveIdx /\ onBoard(history[len - moveIdx + 1])
          THEN {set(featureIdx, history[len - moveIdx + 1][2], history[len - moveIdx + 1][1])}
          ELSE {}
      globalOffset == batchIndex * 19
      passed(moveIdx) ==
        IF len >= moveIdx /\ history[len - moveIdx + 1][1] < 0
          THEN {globalOffset + moveIdx - 1} ELSE {}
      bin == stonePlanes \cup ko
               \cup UNION {setHistory(k, 8 + k) : k \in 1..5}
      global == UNION {passed(k) : k \in 1..5} \cup {globalOffset + 5}
  IN [bin |-> {i \in bin : i >= 0 /\ i < slots * numPlanes * size * size},
      global |-> {i \in global : i >= 0 /\ i < slots * 19}]

FeatBoards(size) ==
  {b \in [boardPoints(size) -> {-1, 0, 1}] : Cardinality({p \in boardPoints(size) : b[p] # 0}) <= MaxStones}
\* a pass, a move on the board, a move off the board
FeatHistories(size) ==
  {<<>>} \cup {<<mv>> : mv \in {<<-1, -1>>, <<0, 1>>, <<size, 0>>}}
\* options.koInfo: none, a ko on the board, the vertex [-1, -1], a vertex far
\* off the board
FeatKoInfos(size) ==
  [sign : {1, -1}, vertex : {<<-1, -1>>, <<1, 0>>, <<0, 16 * size>>}]
    \cup {[sign |-> 0, vertex |-> <<-1, -1>>]}

\* analyzeBatch fills slot b of the buffers of a batch of MaxBatch positions
FeaturizeSlot ==
  /\ LibIdle
  /\ \E size \in SampleSides :
     \E board \in FeatBoards(size), pla \in {1, -1}, history \in FeatHistories(size),
        koInfo \in FeatKoInfos(size), b \in 0..(MaxBatch - 1) :
       libCall' = [fn |-> "featurizeToBuffer", size |-> size, b |-> b, koInfo |-> koInfo,
                   history |-> history,
                   written |-> featurizeToBuffer(board, pla, history, koInfo, b, size, MaxBatch)]
  /\ UNCHANGED <<koCase, mcts, rw, overlap>>
  /\ UNCHANGED nonFnVars

\* generatePerformanceReport (src/unnamed/part_004, lines 423-473): the
\* statistics of the positions that have some, and the counts of the report
MaxReportMoves == 2      \* positions given to generatePerformanceReport

generatePerformanceReport(positions, thresholds) ==
  LET stats == [i \in 1..Len(positions) |-> generateMoveStats(positions[i], thresholds)]
      moves == SelectSeq(stats, LAMBDA st : st # NoStats)
      analyzedCount == Len(moves)
      totalMoves == Len(positions)
  IN [totalMoves |-> totalMoves, analyzedMoves |-> analyzedCount,
      analysisComplete |-> analyzedCount = totalMoves, moves |-> moves]

\* positions of a game: Black or White played A1, with or without the
\* analysis before and after the move
ReportPositions ==
  [player : {"B", "W"}, move : {"A1"},
   analysisBeforeMove : {AbsentAnalysis, [scoreLead |-> 30, moveSuggestions |-> <<>>,
                                          present |-> TRUE]},
   analysisAfterMove : {AbsentAnalysis, [scoreLead |-> 0 - 60, moveSuggestions |-> <<>>,
                                         present |-> TRUE]}]

GeneratePerformanceReport ==
  /\ LibIdle
  /\ \E n \in 1..MaxReportMoves :
     \E positions \in [1..n -> ReportPositions] :
       libCall' = [fn |-> "generatePerformanceReport", positions |-> positions,
                   report |-> generatePerformanceReport(positions,
                                                        DEFAULT_POINTS_LOST_THRESHOLDS)]
  /\ UNCHANGED <<koCase, mcts, rw, overlap>>
  /\ UNCHANGED nonFnVars

LibNext ==
  \/ ReclassifyWithHints \/ BuildSGF \/ OrderCorners \/ GenerateMoveStats
  \/ AnalyzeBothWays \/ RunPipeline \/ FeaturizeSlot \/ GeneratePerformanceReport

\* ------------------------------------------------------------------------
\* Part IX  OnnxEngine.analyzeBatch: calls that overlap on one engine
\* (src/unnamed/part_001, lines 941-1150)
\* ------------------------------------------------------------------------
\* the two callers that may each have an analyzeBatch call outstanding
Callers == {1, 2}
NoRequest == [pc |-> "idle", key |-> 0, device |-> FALSE, read |-> 0]
OverlapIdle == overlap = [writer |-> 0, data |-> 0, reqs |-> [c \in Callers |-> NoRequest]]

\* uploadToGpu: queue.writeBuffer at offset 0 of the one gpuBinBuffer and the
\* one gpuGlobalBuffer; the buffers then hold the features of position k
uploadToGpu(o, c, k) == [o EXCEPT !.writer = c, !.data = k]

\* analyzeBatch([k]) of caller c, from its entry to its first await: the cache
\* look-up, the featurization, the upload or the tensor creation, and the call
\* of session.run, whose promise is then awaited.
BatchStart(c, k) ==
  /\ initialized /\ session
  /\ overlap.reqs[c].pc = "idle"
  /\ LET uncached == uncachedOf(<<k>>, cache, cfgEnableCache)
         usingGpuBuffers == useGpuInputs /\ gpuBuffers
     IN IF uncached = <<>>
          THEN overlap' = [overlap EXCEPT !.reqs[c] =
                             [pc |-> "returned", key |-> k, device |-> FALSE, read |-> k]]
          ELSE overlap' = [(IF usingGpuBuffers THEN uploadToGpu(overlap, c, k) ELSE overlap)
                             EXCEPT !.reqs[c] = [pc |-> "running", key |-> k,
                                                 device |-> usingGpuBuffers, read |-> 0]]
  /\ UNCHANGED <<koCase, mcts, rw, libCall>>
  /\ UNCHANGED nonFnVars

\* the awaited session.run of caller c settles; the rest of analyzeBatch runs
\* to its return or rethrows.  read is the position whose features the run
\* was given, the content of the device buffers or the caller's own tensors,
\* and the network's output is the evaluation of that position.
BatchRunDone(c, ok) ==
  /\ overlap.reqs[c].pc = "running"
  /\ LET r == overlap.reqs[c]
         read == IF r.device THEN overlap.data ELSE r.key
         st == storeResults([results |-> <<NoResult>>, cache |-> cache, inserted |-> inserted],
                            1, <<1>>, <<[key |-> r.key, out |-> read]>>, cfgEnableCache)
     IN /\ overlap' = [overlap EXCEPT !.reqs[c] =
                         [r EXCEPT !.pc = IF ok THEN "returned" ELSE "rethrown",
                                   !.read = read]]
        /\ cache' = IF ok THEN st.cache ELSE cache
        /\ inserted' = IF ok THEN st.inserted ELSE inserted
  /\ UNCHANGED <<cfgProviders, cfgEnableGraphCapture, cfgHasModel, session, initialized,
                 usedProviders, requestedProviders, didFallback, graphCaptureEnabled,
                 useGpuInputs, gpuBuffers, initPc, effProviders, usedProviderNames,
                 initTried, lastInit, lastAnalyze, cfgEnableCache, inputDataType,
                 maxInferenceBatch, lastRun>>
  /\ UNCHANGED <<koCase, mcts, rw, libCall>>
  /\ UNCHANGED <<recVars, ctxVars>>

\* caller c takes the results or the error of its call
BatchSettled(c) ==
  /\ overlap.reqs[c].pc \in {"returned", "rethrown"}
  /\ overlap' = [overlap EXCEPT !.reqs[c] = NoRequest]
  /\ UNCHANGED <<koCase, mcts, rw, libCall>>
  /\ UNCHANGED nonFnVars

OverlapNext ==
  \/ InitializeStart(TRUE, TRUE)
  \/ Create1Done(TRUE)
  \/ \E ok \in BOOLEAN : AllocateDone(ok)
  \/ \E c \in Callers, k \in CacheKeys : BatchStart(c, k)
  \/ \E c \in Callers, ok \in BOOLEAN : BatchRunDone(c, ok)
  \/ \E c \in Callers : BatchSettled(c)

\* ------------------------------------------------------------------------
\* Specifications
\* ------------------------------------------------------------------------
\* Parts I and II start with an engine of the default configuration; Part III
\* starts with an engine of any configuration.
FnIdle == KoIdle /\ MctsIdle /\ RwIdle /\ LibIdle /\ OverlapIdle
InitAnyEngineConfig == RecInit /\ CtxInit /\ OnnxInit /\ FnIdle
DefaultEngine == cfgProviders = Unset /\ ~cfgEnableGraphCapture /\ cfgHasModel /\ cfgEnableCache
Init == InitAnyEngineConfig /\ DefaultEngine

SpecFacade == Init /\ [][FacadeNext]_vars
SpecDialog == Init /\ [][DialogNext]_vars
SpecEngineContext == Init /\ [][CtxNext]_vars
SpecOnnxEngine == InitAnyEngineConfig /\ [][OnnxNext]_vars

\* Part IV starts with an engine of the default providers, with or without
\* graph capture and the cache.
InitAnalysis ==
  /\ InitAnyEngineConfig
  /\ cfgProviders = Unset /\ cfgHasModel
SpecOnnxAnalysis == InitAnalysis /\ [][AnalysisNext]_vars

\* Part V starts with any decoded output of any position.
InitKo == RecInit /\ CtxInit /\ OnnxInit /\ DefaultEngine /\ KoInit /\ MctsIdle /\ RwIdle /\ LibIdle /\ OverlapIdle
SpecKoFilter == InitKo /\ [][KoNext]_vars

\* Part VI starts before _runMCTS is called.
SpecMcts == Init /\ [][MctsNext]_vars

\* Part VII starts with any buffer and either profile.
InitRw == RecInit /\ CtxInit /\ OnnxInit /\ DefaultEngine /\ KoIdle /\ MctsIdle /\ RwInit /\ LibIdle /\ OverlapIdle
SpecRewriter == InitRw /\ [][RwNext]_vars

\* Part VIII starts before any of its functions is called.
SpecLibrary == Init /\ [][LibNext]_vars

\* Part IX starts like Part IV, with no analyzeBatch call outstanding.
SpecOverlap == InitAnalysis /\ [][OverlapNext]_vars

\* ------------------------------------------------------------------------
\* Properties of Part II and Part III
\* ------------------------------------------------------------------------

\* C8: when the first session creation fails with a GPU provider among
\* several effective providers, initialize retries, once, without the GPU
\* providers; when the retry succeeds the engine is initialized, didFallback
\* is set and getRuntimeInfo() reports the first GPU provider that was
\* requested as requestedBackend.
C8_FallbackRetrySucceeds ==
  /\ [](initPc = "create2" => usedProviderNames # <<>> /\ ~hasGpu(usedProviderNames))
  /\ []((initTried /\ session) =>
          /\ initialized /\ didFallback /\ getRuntimeInfo.didFallback
          /\ usedProviders = usedProviderNames
          /\ \E i \in 1..Len(requestedProviders) :
               /\ requestedProviders[i] = getRuntimeInfo.requestedBackend
               /\ requestedProviders[i] \in GpuProviders
               /\ \A j \in 1..(i - 1) : requestedProviders[j] \notin GpuProviders)
  /\ [][(/\ initPc = "create1" /\ initPc' # "create1" /\ ~session'
         /\ hasGpu(effProviders) /\ Len(effProviders) > 1)
          => initPc' = "create2"]_vars
  /\ [][(initPc = "create2" /\ initPc' # "create2") => initPc' = "idle"]_vars

\* C8 witness: a retry without the GPU providers has succeeded and the
\* initialize() call has returned.
C8_Witness ==
  /\ initTried /\ session /\ initPc = "idle" /\ lastInit = "ok"
  /\ getRuntimeInfo.requestedBackend = "webnn"

\* C9: after initialize has succeeded, didFallback implies that graph capture
\* and GPU input binding are both off, and graph capture is on only if
\* webgpu is among the providers the session uses.
C9_FallbackDisablesGraphCapture ==
  (initPc = "idle" /\ lastInit = "ok") =>
    /\ didFallback => (~graphCaptureEnabled /\ ~useGpuInputs)
    /\ graphCaptureEnabled => includes(usedProviders, "webgpu")

\* C10: when session creation fails with nothing to fall back to, or the
\* retry fails too, initialize rejects, the engine has no session and is not
\* initialized, and an analysis request made after that is refused with
\* 'Engine not initialized'.
C10_FailedInitializeRefusesAnalysis ==
  /\ []((initPc = "idle" /\ lastInit = "rejected") => (~session /\ ~initialized))
  /\ [](lastAnalyze.after = "rejected" => lastAnalyze.outcome = "Engine not initialized")
  /\ [][(/\ initPc = "create1" /\ initPc' # "create1" /\ ~session'
         /\ ~(hasGpu(effProviders) /\ Len(effProviders) > 1))
          => (initPc' = "idle" /\ lastInit' = "rejected")]_vars
  /\ [][(initPc = "create2" /\ initPc' # "create2" /\ ~session')
          => (initPc' = "idle" /\ lastInit' = "rejected")]_vars

\* C10 witness: the retry failed as well, and a batch analysis asked for
\* afterwards was refused.
C10_Witness ==
  /\ initPc = "idle" /\ lastInit = "rejected" /\ initTried
  /\ lastAnalyze = [kind |-> "batch", outcome |-> "Engine not initialized",
                    after |-> "rejected"]

\* ------------------------------------------------------------------------
\* Properties of Part IV
\* ------------------------------------------------------------------------
Range(f) == {f[i] : i \in DOMAIN f}

\* a run of r that failed with the float16 message while float32 was fed
mismatchAt(r, i) == r.errors[i] = "fp16" /\ r.feeds[i] = "float32"

\* C11: a run that fails with the float16 message while float32 is fed is
\* followed by exactly one more run of the same request, fed float16, and
\* the engine feeds float16 from then on, on the single, the MCTS-leaf and
\* the batched path alike.
C11_MismatchRetriedOnce ==
  \A i \in 1..Len(lastRun.errors) :
    mismatchAt(lastRun, i) =>
      /\ Len(lastRun.feeds) = i + 1
      /\ lastRun.feeds[i + 1] = "float16"
      /\ inputDataType = "float16"

\* C12: a run failure other than the element-type mismatch is rethrown, and
\* the step that fails leaves session, initialized, inputDataType, the cache
\* and the GPU buffers as they were, so the engine still accepts requests.
C12_OtherFailureLeavesEngineUsable ==
  /\ []((\E i \in 1..Len(lastRun.errors) : lastRun.errors[i] = "other")
          => lastRun.outcome = "rethrown")
  /\ [](lastRun.outcome = "rethrown" => (session /\ initialized))
  /\ [][(/\ lastRun' # lastRun
         /\ lastRun'.outcome = "rethrown"
         /\ \A i \in 1..Len(lastRun'.errors) : ~mismatchAt(lastRun', i))
          => UNCHANGED <<session, initialized, inputDataType, cache, gpuBuffers>>]_vars

\* C12 witness: a single evaluation failed with another error while the
\* engine was feeding float32, and the engine is still initialized.
C12_Witness ==
  /\ lastRun.path = "single" /\ lastRun.outcome = "rethrown"
  /\ lastRun.errors = <<"other">> /\ lastRun.feeds = <<"float32">>
  /\ session /\ initialized /\ inputDataType = "float32"

\* C13: a batch that returns has one result per input, results[i] being the
\* result of inputs[i]; the uncached inputs were run in consecutive chunks
\* of at most maxInferenceBatch inputs, each of them in exactly one chunk.
C13_BatchResultsInInputOrder ==
  (lastRun.path = "batch" /\ lastRun.outcome = "returned") =>
    LET r == lastRun
        n == Len(r.ran)
    IN /\ Len(r.results) = Len(r.inputs)
       /\ \A i \in 1..Len(r.inputs) : r.results[i].key = r.inputs[i]
       /\ \A j \in 1..Len(r.chunks) :
            /\ r.chunks[j].from < r.chunks[j].to
            /\ r.chunks[j].to - r.chunks[j].from <= maxInferenceBatch
            /\ r.chunks[j].from = (IF j = 1 THEN 0 ELSE r.chunks[j - 1].to)
       /\ (n > 0) => (r.chunks # <<>> /\ r.chunks[Len(r.chunks)].to = n)
       /\ \A b \in 0..(n - 1) :
            Cardinality({j \in 1..Len(r.chunks) :
                           r.chunks[j].from <= b /\ b < r.chunks[j].to}) = 1

\* C13 witness: a batch of two different inputs returned, the first taken
\* from the cache and the second run in a chunk.
C13_Witness ==
  /\ lastRun.path = "batch" /\ lastRun.outcome = "returned"
  /\ Len(lastRun.inputs) = 2 /\ lastRun.inputs[1] # lastRun.inputs[2]
  /\ lastRun.ran = <<2>> /\ Len(lastRun.chunks) = 1

C15_CacheHitSkipsInference ==
  [][(lastRun' # lastRun /\ lastRun'.path = "batch" /\ cfgEnableCache) =>
       \A i \in 1..Len(lastRun'.inputs) :
         lastRun'.inputs[i] \in cacheKeys(cache) =>
           /\ i \notin Range(lastRun'.ran)
           /\ lastRun'.outcome = "returned" =>
                \E j \in 1..Len(cache) : /\ cache[j].key = lastRun'.inputs[i]
                                         /\ lastRun'.results[i] = cache[j].value]_vars

\* C15 witness: a batch returned a cached result without running anything.
C15_Witness ==
  /\ cfgEnableCache /\ lastRun.path = "batch" /\ lastRun.outcome = "returned"
  /\ lastRun.ran = <<>> /\ lastRun.chunks = <<>>
  /\ lastRun.results[1] \in {cache[j].value : j \in 1..Len(cache)}

\* ------------------------------------------------------------------------
\* Properties of Part V
\* ------------------------------------------------------------------------
\* a vertex of the board is forbidden by ko to the side to move
koForbidden(c) == c.koInfo.sign = c.pla /\ c.koInfo.vertex # <<-1, -1>>
\* the policy index of the ko vertex
koIndex(c) == c.koInfo.vertex[2] * c.size + c.koInfo.vertex[1]
\* the probabilities of the suggestions sum to 1
sumsToOne(suggestions) ==
  /\ \A i \in 1..Len(suggestions) : suggestions[i].probability.den = suggestions[1].probability.den
  /\ sumNum(suggestions) = suggestions[1].probability.den

\* C16: when a vertex is forbidden by ko to the side to move, no suggestion
\* of the result (single evaluation, batch slot, MCTS root) is the move the
\* policy index of that vertex decodes to.
C16_NoSuggestionOnKoVertex ==
  (koCase.done /\ koForbidden(koCase)) =>
    \A i \in 1..Len(koCase.result) :
      koCase.result[i].move # moveStr(koIndex(koCase), koCase.size)

\* C16 witness: the policy suggested the ko vertex and the result has
\* another suggestion left.
C16_Witness ==
  /\ koCase.done /\ koForbidden(koCase)
  /\ \E i \in 1..Len(koCase.policy) : koCase.policy[i].idx = koIndex(koCase)
  /\ koCase.result # <<>>

\* C17 as stated: after the ko filter the probabilities of the surviving
\* suggestions sum to 1 whenever one survives.
C17_SurvivorsSumToOne ==
  (koCase.done /\ koCase.path \in {"single", "batch"} /\ koCase.result # <<>>) =>
    sumsToOne(koCase.result)

\* C17 amended: the probabilities of the surviving suggestions sum to 1
\* whenever a vertex is forbidden by ko to the side to move and the
\* survivors' probabilities have a positive total; with no such vertex the
\* result is the decoded one, unchanged, and survivors whose total is 0 keep
\* their probabilities.
C17_SurvivorsSumToOneWhenRenormalised ==
  (koCase.done /\ koCase.path \in {"single", "batch"}) =>
    LET c == koCase
        den == sumNum(decode(c.policy, 1, c.size)) + c.rest
        decoded == decode(c.policy, den, c.size)
        survivors == SelectSeq(decoded,
                               LAMBDA s : s.move # moveStr(koIndex(c), c.size))
    IN IF ~koForbidden(c) THEN c.result = decoded
       ELSE /\ [i \in 1..Len(c.result) |-> c.result[i].move]
                 = [i \in 1..Len(survivors) |-> survivors[i].move]
            /\ IF sumNum(survivors) > 0 THEN sumsToOne(c.result)
                                        ELSE c.result = survivors

\* C17 witness: the ko vertex was removed and the survivors, whose decoded
\* probabilities did not sum to 1, were renormalised.
C17_Witness ==
  /\ koCase.done /\ koCase.path = "batch" /\ koForbidden(koCase)
  /\ Len(koCase.result) < Len(koCase.policy) /\ koCase.result # <<>>
  /\ koCase.result[1].probability.num > 0
  /\ koCase.rest > 0

\* ------------------------------------------------------------------------
\* Properties of Part VI
\* ------------------------------------------------------------------------
\* C18: during a search the root has been visited once per iteration done,
\* and when _runMCTS returns after numVisits iterations the root's N and the
\* visits of the result are numVisits, however the iterations ended.
C18_RootVisitsEqualIterations ==
  /\ mcts.status \in {"running", "returned", "rejected"} => mcts.tree[Root].N = mcts.v
  /\ mcts.status = "returned" =>
       /\ mcts.v = mcts.numVisits /\ mcts.numVisits > 1
       /\ mcts.tree[Root].N = mcts.numVisits
       /\ mcts.visits = mcts.numVisits

\* C18 witness: a search of three visits returned after an expansion, a
\* truncated selection and a visit that ended below the root.
C18_Witness ==
  /\ mcts.status = "returned" /\ mcts.numVisits = 3 /\ mcts.visits = 3
  /\ {"expanded", "truncated"} \subseteq mcts.kinds
  /\ \E n \in DOMAIN mcts.tree : n # Root /\ mcts.tree[n].N > 0

\* ------------------------------------------------------------------------
\* Properties of Part VII
\* ------------------------------------------------------------------------
opCount(graph, ops) == Cardinality({i \in 1..Len(graph.node) : graph.node[i].opType \in ops})

\* C19: the rewriter run on what it returned, with either profile and
\* whatever options, reports no change and returns the same model: no
\* Softplus or LogSoftmax node is left to replace, and no node, constant or
\* value-info entry is added.
C19_RewriterIsIdempotent ==
  (Len(rw.runs) = 2 /\ rw.runs[2].status = "returned") =>
    LET first == rw.runs[1].buffer.graph
        second == rw.runs[2].buffer.graph
    IN /\ opCount(first, {"Softplus", "LogSoftmax"}) = 0
       /\ rw.runs[2].changes = 0 /\ ~rw.runs[2].wasConverted
       /\ Len(second.node) = Len(first.node)
       /\ Len(second.initializer) = Len(first.initializer)
       /\ Len(second.valueInfo) = Len(first.valueInfo)
       /\ rw.runs[2].buffer = rw.runs[1].buffer

\* C19 witness: the first run replaced a Softplus and a LogSoftmax node and
\* made a dimension static, and the second run returned.
C19_Witness ==
  /\ Len(rw.runs) = 2 /\ rw.runs[2].status = "returned"
  /\ opCount(rw.bytes.graph, {"Softplus"}) > 0
  /\ opCount(rw.bytes.graph, {"LogSoftmax"}) > 0
  /\ rw.runs[1].changes >= 3
  /\ rw.runs[1].buffer.graph.initializer # <<>>

\* C20: when the bytes cannot be parsed as a model the rewriter returns the
\* bytes it was given, with wasConverted false.
C20_ParseFailureReturnsOriginal ==
  (rw.runs # <<>> /\ rw.bytes.kind # "model") =>
    /\ rw.runs[1].status = "returned"
    /\ rw.runs[1].buffer = rw.bytes
    /\ ~rw.runs[1].wasConverted

\* the nodes of the graph that are neither Softplus nor LogSoftmax, in order
otherNodes(graph) ==
  SelectSeq(graph.node, LAMBDA n : n.opType \notin {"Softplus", "LogSoftmax"})

\* C21: for a graph of s Softplus and l LogSoftmax nodes the rewritten graph
\* has no Softplus and no LogSoftmax node and 6 s + l more nodes, keeps the
\* other nodes in their order, and gains one constant when s > 0, none when
\* s = 0.
C21_DecompositionCounts ==
  (rw.runs # <<>> /\ rw.runs[1].status = "returned") =>
    LET g == rw.bytes.graph
        out == rw.runs[1].buffer.graph
        sp == opCount(g, {"Softplus"})
        ls == opCount(g, {"LogSoftmax"})
        kept == {g.node[i] : i \in 1..Len(g.node)}
    IN /\ opCount(out, {"Softplus", "LogSoftmax"}) = 0
       /\ Len(out.node) = Len(g.node) + 6 * sp + ls
       /\ SelectSeq(out.node, LAMBDA n : n \in kept) = otherNodes(g)
       /\ Len(out.initializer) = Len(g.initializer) + (IF sp > 0 THEN 1 ELSE 0)
       /\ sp > 0 => out.initializer[Len(out.initializer)] = oneName(rw.profile)

\* C21 witness: a Softplus node and another node, in this order, were
\* rewritten by the WebGPU profile.
C21_Witness ==
  /\ rw.runs # <<>> /\ rw.runs[1].status = "returned" /\ rw.profile = "webgpu"
  /\ Len(rw.bytes.graph.node) = 2
  /\ rw.bytes.graph.node[1].opType = "Softplus"
  /\ rw.bytes.graph.node[2].opType = "Conv"
  /\ Len(rw.runs[1].buffer.graph.node) = 8

\* C22: after the WebNN profile has run, every dimension of every input,
\* output and value-info entry has no dimParam and a positive dimValue.
C22_WebNNDimensionsAllStatic ==
  (rw.profile = "webnn" /\ rw.runs # <<>> /\ rw.runs[1].status = "returned") =>
    LET out == rw.runs[1].buffer.graph
        all == out.input \o out.output \o out.valueInfo
    IN \A i \in 1..Len(all) : \A k \in 1..Len(all[i].dims) :
         all[i].dims[k].param = "" /\ all[i].dims[k].value > 0

\* ------------------------------------------------------------------------
\* Properties of Part VIII
\* ------------------------------------------------------------------------
stonesAt(stones, x, y) == SelectSeq(stones, LAMBDA st : st.x = x /\ st.y = y)

\* the stones at the point of hint h are what h says
emitted(stones, h) ==
  stonesAt(stones, h.x, h.y) =
    IF h.color = "empty" THEN <<>> ELSE <<[x |-> h.x, y |-> h.y, color |-> h.color]>>

oneStonePerPoint(stones, side) ==
  \A x, y \in 0..(side - 1) : Len(stonesAt(stones, x, y)) <= 1

\* C23 as stated: the value of every hint of the list is what is output at
\* its intersection, and no intersection has two stones.
C23_EveryHintIsEmitted ==
  libCall.fn = "reclassifyWithHints" =>
    /\ \A i \in 1..Len(libCall.hints) : emitted(libCall.stones, libCall.hints[i])
    /\ oneStonePerPoint(libCall.stones, libCall.sample.side)

\* C23: at every hinted intersection the output is the value of the last hint
\* of the list for it, whatever was sampled there, and no intersection has two
\* stones.
C23_LastHintIsEmitted ==
  libCall.fn = "reclassifyWithHints" =>
    /\ \A i \in 1..Len(libCall.hints) :
         (\A j \in (i + 1)..Len(libCall.hints) :
            libCall.hints[j].x # libCall.hints[i].x \/ libCall.hints[j].y # libCall.hints[i].y)
           => emitted(libCall.stones, libCall.hints[i])
    /\ oneStonePerPoint(libCall.stones, libCall.sample.side)

\* C23 witness: a dark intersection hinted black and then empty comes out
\* without a stone, next to a stone the classifier found by itself.
C23_Witness ==
  /\ libCall.fn = "reclassifyWithHints"
  /\ libCall.hints = << [x |-> 0, y |-> 0, color |-> "black"],
                        [x |-> 0, y |-> 0, color |-> "empty"] >>
  /\ libCall.sample.relative[1] = 0 - 48
  /\ stonesAt(libCall.stones, 0, 0) = <<>>
  /\ libCall.stones # <<>>

twiceArea(a, b, c) == cross(<<b[1] - a[1], b[2] - a[2]>>, <<c[1] - b[1], c[2] - b[2]>>)

\* q lists the corners of a convex quadrilateral, no three on a line, turning
\* the same way at every corner
turnsOneWay(q) ==
  \A i \in 1..4 : twiceArea(q[i], q[(i % 4) + 1], q[((i + 1) % 4) + 1]) > 0

convexQuad(pts) ==
  \E f \in [1..4 -> 1..4] :
    /\ \A i, j \in 1..4 : i # j => f[i] # f[j]
    /\ turnsOneWay([i \in 1..4 |-> pts[f[i]]])

\* no three of the points on a line and no two on one anti-diagonal
generalPosition(pts) ==
  /\ convexQuad(pts)
  /\ \A i, j \in 1..4 : i # j => pts[i][1] + pts[i][2] # pts[j][1] + pts[j][2]

\* C24: for four points of a convex quadrilateral in general position
\* orderCorners returns them as TL, TR, BR, BL with TL.x + TL.y <= TR.x + TR.y
\* and TL.y <= BL.y, in the order of growing angle (counter-clockwise for a y
\* axis that points up).
C24_OrderCornersContract ==
  (libCall.fn = "orderCorners" /\ generalPosition(libCall.pts)) =>
    LET TL == libCall.corners[1]
        TR == libCall.corners[2]
        BL == libCall.corners[4]
    IN /\ Range(libCall.corners) = Range(libCall.pts)
       /\ TL[1] + TL[2] <= TR[1] + TR[2]
       /\ TL[2] <= BL[2]
       /\ turnsOneWay(libCall.corners)

\* the properties of the text with identifier id
propsOf(sgf, id) == SelectSeq(sgf, LAMBDA pr : pr.id = id)

\* the property id is absent when no stone has the colour, and otherwise lists
\* the points of the stones of that colour, each once
listedOnce(sgf, id, stones, color) ==
  LET pointsOf == {coord(stones[i].x, stones[i].y) :
                     i \in {k \in 1..Len(stones) : stones[k].color = color}}
  IN IF pointsOf = {} THEN propsOf(sgf, id) = <<>>
     ELSE /\ Len(propsOf(sgf, id)) = 1
          /\ Range(propsOf(sgf, id)[1].values) = pointsOf
          /\ Len(propsOf(sgf, id)[1].values) = Cardinality(pointsOf)

\* C25: the text has SZ[boardSize], every black stone once under AB and every
\* white stone once under AW, duplicates of the input removed, and no AB or
\* AW property for a colour without stones.
C25_StonesListedOnce ==
  libCall.fn = "buildSGF" =>
    /\ propsOf(libCall.sgf, "SZ") = <<[id |-> "SZ", values |-> <<libCall.boardSize>>]>>
    /\ listedOnce(libCall.sgf, "AB", libCall.stones, "black")
    /\ listedOnce(libCall.sgf, "AW", libCall.stones, "white")

severity(category) ==
  CASE category = "aiMove" -> 0 [] category = "good" -> 1 [] category = "inaccuracy" -> 2
    [] category = "mistake" -> 3 [] OTHER -> 4

\* the category of the rank table; a move outside the suggestions has rank 0
rankCategory(rank) ==
  IF rank = 0 THEN "blunder" ELSE IF rank = 1 THEN "aiMove" ELSE IF rank <= 3 THEN "good"
  ELSE IF rank <= 10 THEN "inaccuracy" ELSE IF rank <= 20 THEN "mistake" ELSE "blunder"

\* the category of the relative-probability table
relativeCategory(prob, topProb) ==
  IF topProb = 0 THEN "blunder"
  ELSE IF prob >= topProb THEN "aiMove" ELSE IF 2 * prob >= topProb THEN "good"
  ELSE IF 10 * prob >= topProb THEN "inaccuracy" ELSE IF 50 * prob >= topProb THEN "mistake"
  ELSE "blunder"

\* C26: the category of a move is the less severe of its rank category and
\* its relative-probability category, whatever the points lost.
C26_CategoryFromRankAndProbability ==
  (libCall.fn = "generateMoveStats" /\ libCall.stats # NoStats) =>
    LET byRank == rankCategory(libCall.stats.moveRank)
        byProb == relativeCategory(libCall.stats.moveProbability,
                                   libCall.stats.topMoveProbability)
    IN libCall.stats.category =
         (IF severity(byRank) <= severity(byProb) THEN byRank ELSE byProb)

\* ------------------------------------------------------------------------
\* Properties of Part VI, continued
\* ------------------------------------------------------------------------
\* C27: at every point of a search every node has N >= 0 and 0 <= W <= N,
\* and every expanded node has a children map.
C27_NodeCountsAndValuesInRange ==
  mcts.status # "idle" =>
    \A n \in DOMAIN mcts.tree :
      LET node == mcts.tree[n]
      IN /\ node.N >= 0
         /\ node.W.num >= 0 /\ node.W.den > 0
         /\ node.W.num <= node.N * node.W.den
         /\ node.expanded => ~node.childrenNull

\* C27 witness: after three visits the root holds a W strictly between 0 and
\* N that is no multiple of a half, and an expanded node has no child.
C27_Witness ==
  /\ mcts.status = "returned" /\ mcts.tree[Root].N = 3
  /\ mcts.tree[Root].W.den \notin {1, 2}
  /\ \E n \in DOMAIN mcts.tree : mcts.tree[n].expanded /\ mcts.tree[n].children = {}

\* C29: a visit whose selection stopped because the move of the chosen child
\* could not be parsed or applied runs no evaluation, adds no node, and backs
\* up the running average W/N of the node it stopped at, along the path to
\* that node only.
C29_TruncatedVisitBacksUpAverage ==
  [][(mcts.status = "running" /\ mcts'.v = mcts.v + 1 /\ mcts'.lastVisit.kind = "truncated") =>
       LET at == mcts'.lastVisit.path
           parent == mcts.tree[at]
           average == frac(parent.W.num, parent.W.den * parent.N)
       IN /\ ~mcts'.lastVisit.evaluated
          /\ parent.N > 0
          /\ mcts'.lastVisit.value = average
          /\ DOMAIN mcts'.tree = DOMAIN mcts.tree
          /\ \A n \in DOMAIN mcts.tree :
               mcts'.tree[n] =
                 IF \E k \in 0..Len(at) : n = SubSeq(at, 1, k)
                   THEN [mcts.tree[n] EXCEPT !.N = @ + 1, !.W = fracAdd(@, average)]
                   ELSE mcts.tree[n]]_vars

\* C29 witness: a truncated visit at a node below the root backed up an
\* average other than one half.
C29_Witness ==
  /\ mcts.status \in {"running", "returned"}
  /\ mcts.lastVisit.kind = "truncated" /\ mcts.lastVisit.path # Root
  /\ ~mcts.lastVisit.evaluated
  /\ mcts.lastVisit.value # Half

\* ------------------------------------------------------------------------
\* Properties of Part V, continued
\* ------------------------------------------------------------------------
\* the vertex of policy index idx, column and row from the top
vertexOf(idx, size) == <<idx % size, idx \div size>>

\* C28: every child an expansion creates is for a pass or for a point of the
\* board that is unoccupied and is not the vertex forbidden by ko to the side
\* to move at the node.
C28_ChildrenOnlyForLegalPoints ==
  (koCase.done /\ koCase.path = "mcts") =>
    \A i \in 1..Len(koCase.result) :
      \/ koCase.result[i].move = PASS
      \/ \E idx \in 0..(koCase.size * koCase.size - 1) :
           /\ koCase.result[i].move = moveStr(idx, koCase.size)
           /\ vertexOf(idx, koCase.size) \notin koCase.occupied
           /\ ~(koForbidden(koCase) /\ idx = koIndex(koCase))

\* C28 witness: the policy suggested an occupied point and a free one, and
\* the only child is the one for the free point.
C28_Witness ==
  /\ koCase.done /\ koCase.path = "mcts"
  /\ \E i \in 1..Len(koCase.policy) :
       /\ koCase.policy[i].idx < koCase.size * koCase.size
       /\ vertexOf(koCase.policy[i].idx, koCase.size) \in koCase.occupied
  /\ Len(koCase.result) = 1 /\ koCase.result[1].move # PASS

\* ------------------------------------------------------------------------
\* Properties of Part IV, continued
\* ------------------------------------------------------------------------
\* C30: after the session runs of an evaluation or a batch, whether they
\* succeeded or failed, every host tensor created for them has been disposed
\* and no pre-allocated device tensor has.
C30_HostTensorsDisposedAfterEveryRun ==
  \A i \in 1..Len(lastRun.tensors) :
    lastRun.tensors[i].disposed <=> lastRun.tensors[i].kind = "host"

\* C31: the tensor bound to the pre-allocated dense input buffer has shape
\* [1, 22, boardSize, boardSize] for the board analysed, and the data
\* uploaded for a position has as many elements as that shape.
C31_DeviceTensorMatchesBoard ==
  \A i \in 1..Len(lastRun.tensors) :
    lastRun.tensors[i].kind = "device" =>
      /\ lastRun.tensors[i].dims = <<1, 22, lastRun.size, lastRun.size>>
      /\ lastRun.tensors[i].data =
           lastRun.tensors[i].dims[1] * lastRun.tensors[i].dims[2]
             * lastRun.tensors[i].dims[3] * lastRun.tensors[i].dims[4]

\* C32: while a caller's run on the device input buffers has not completed,
\* the last upload to those buffers is that caller's own: no other request
\* uploads between a request's upload and the completion of its run.
C32_UploadOnlyForTheRunThatReads ==
  \A c \in Callers :
    (overlap.reqs[c].pc = "running" /\ overlap.reqs[c].device) => overlap.writer = c

\* the tensors a decomposition introduces for the nodes of graph g, each
\* with the input of the node it replaces
intermediates(profile, g) ==
  LET before(i, op) == Cardinality({j \in 1..(i - 1) : g.node[j].opType = op})
  IN UNION {
       IF g.node[i].opType = "Softplus"
         THEN {[name |-> <<spPrefix(profile), before(i, "Softplus"), sfx>>,
                of |-> g.node[i].input] :
                 sfx \in {"abs", "neg", "exp", "add1", "log", "relu"}}
       ELSE IF g.node[i].opType = "LogSoftmax"
         THEN {[name |-> <<lsPrefix(profile), before(i, "LogSoftmax"), "sm">>,
                of |-> g.node[i].input]}
       ELSE {} : i \in 1..Len(g.node)}

\* the entries of name n among the value-info entries and the inputs of g
entriesOf(g, n) ==
  {e \in Range(g.valueInfo) \cup Range(g.input) : e.name = n}

\* C33 as stated: every intermediate tensor of a decomposition has a
\* value-info entry in the rewritten graph, of the type and shape of the
\* replaced node's input.
C33_EveryIntermediateHasValueInfo ==
  (rw.runs # <<>> /\ rw.runs[1].status = "returned") =>
    LET out == rw.runs[1].buffer.graph
    IN \A t \in intermediates(rw.profile, rw.bytes.graph) :
         \E e \in Range(out.valueInfo) :
           /\ e.name = t.name
           /\ \A x \in entriesOf(out, t.of) : e.dims = x.dims

\* C33: an intermediate tensor of a decomposition has a value-info entry in
\* the rewritten graph exactly when the replaced node's input has a
\* value-info or graph-input entry, and the entry then carries the type and
\* shape that input has in the rewritten graph (its batch dimension made
\* static).
C33_IntermediateTypedWhenInputIs ==
  (rw.runs # <<>> /\ rw.runs[1].status = "returned") =>
    LET out == rw.runs[1].buffer.graph
    IN \A t \in intermediates(rw.profile, rw.bytes.graph) :
         IF entriesOf(out, t.of) = {}
           THEN entriesOf(out, t.name) = {}
           ELSE /\ entriesOf(out, t.name) # {}
                /\ \A e \in entriesOf(out, t.name), x \in entriesOf(out, t.of) :
                     e.dims = x.dims

\* C33 witness: a Softplus and a LogSoftmax node whose input has a
\* value-info entry of a dynamic batch dimension were rewritten.
C33_Witness ==
  /\ rw.runs # <<>> /\ rw.runs[1].status = "returned"
  /\ opCount(rw.bytes.graph, {"Softplus"}) > 0
  /\ opCount(rw.bytes.graph, {"LogSoftmax"}) > 0
  /\ rw.bytes.graph.valueInfo # <<>>
  /\ rw.bytes.graph.valueInfo[1].dims[1].param = "batch_size"
  /\ Len(rw.runs[1].buffer.graph.valueInfo) = 8

\* C34: the engine the provider exposes (the engine state of the context) is
\* null or an engine on which dispose() has not been called.
C34_ExposedEngineIsLive ==
  engine # 0 => engines[engine] \notin {"disposing", "disposed"}

\* a request in flight whose reply the dialog would apply: a recognition
\* whose effect run was not cleaned up, or a reclassification whose sequence
\* number is the current one
replyWouldApply(id) ==
  /\ id \in pending
  /\ \/ handler[id].kind = "recognize" /\ ~handler[id].cancelled
     \/ handler[id].kind = "reclassify" /\ seqIsCurrent(id)

\* C35: while the dialog is open and its analyzing flag is false, no request
\* whose reply would be applied is in flight.
C35_NotAnalyzingMeansNothingInFlight ==
  (mounted /\ ~analyzing) => \A id \in Ids : ~replyWouldApply(id)

\* C36: once dispose() has terminated the worker, no request is left with a
\* pending entry: a request made after dispose() is rejected or not
\* registered.  (dispose() itself empties the table, so an entry found after
\* it belongs to a later request, whose message the terminated worker never
\* receives.)
C36_NoPendingEntryAfterDispose ==
  workerTerminated => pending = {}

\* C37: a single-visit request analysed by analyzeBatch as a batch of one
\* gives the side to move, the win rate and the suggestions that
\* analyzePosition gives for the same position and options.
C37_BatchOfOneEqualsSingle ==
  libCall.fn = "analyze" => libCall.batch = libCall.single

\* C38: when the caller supplies no gridCorners, the grid the stones are
\* classified on is the estimatedGridCorners of the result, or the whole
\* warped image when the result reports none.
C38_ClassifiedOnReportedGrid ==
  (libCall.fn = "pipeline" /\ libCall.gridCorners = <<>>) =>
    libCall.grid.used =
      IF libCall.grid.estimatedGridCorners # <<>>
        THEN libCall.grid.estimatedGridCorners
        ELSE sampleGridCorners(libCall.outputSize, <<>>)

\* C39: featurizeToBuffer for batch slot b assigns only bin_input indices of
\* [b 22 size^2, (b+1) 22 size^2) and global_input indices of [19 b, 19 b + 19).
C39_WritesStayInSlot ==
  libCall.fn = "featurizeToBuffer" =>
    LET slot == 22 * libCall.size * libCall.size
    IN /\ \A i \in libCall.written.bin :
            i >= libCall.b * slot /\ i < (libCall.b + 1) * slot
       /\ \A i \in libCall.written.global :
            i >= 19 * libCall.b /\ i < 19 * libCall.b + 19

\* the positions that have both the analysis before and after the move
fullyAnalysed(positions) ==
  {i \in 1..Len(positions) :
     positions[i].analysisBeforeMove.present /\ positions[i].analysisAfterMove.present}

\* C40: the report counts in analyzedMoves, and lists among its moves, the
\* positions that have both analyses, and analysisComplete holds only when
\* every position has both.
C40_AnalyzedMeansBothAnalyses ==
  libCall.fn = "generatePerformanceReport" =>
    /\ libCall.report.analyzedMoves = Cardinality(fullyAnalysed(libCall.positions))
    /\ Len(libCall.report.moves) = Cardinality(fullyAnalysed(libCall.positions))
    /\ libCall.report.analysisComplete =>
         fullyAnalysed(libCall.positions) = 1..Len(libCall.positions)

====
